---------------------------- MODULE Spec2Model ----------------------------
(***************************************************************************)
(* Release tooling of nWave: scripts/release/discover_tag.py (tag          *)
(* discovery) and scripts/release/generate_changelog.py (commit            *)
(* classification).                                                        *)
(*                                                                         *)
(* A string is a sequence of one-character strings, so that stripping,     *)
(* splitting, parsing and formatting are computed and not assumed.         *)
(* None is the empty sequence <<>>, Some(x) is <<x>>.                      *)
(***************************************************************************)
EXTENDS Integers, Sequences, FiniteSets, TLC

(***************************************************************************)
(* Strings                                                                 *)
(***************************************************************************)
None == <<>>

Some(x) == <<x>>

DigitChars == <<"0", "1", "2", "3", "4", "5", "6", "7", "8", "9">>

IsDigit(c) == \E i \in 1..10 : DigitChars[i] = c

DigitVal(c) == (CHOOSE i \in 1..10 : DigitChars[i] = c) - 1

IsSpace(c) == c \in {" ", "\n", "\t"}

IsLower(c) ==
    c \in {"a", "b", "c", "d", "e", "f", "g", "h", "i", "j", "k", "l", "m",
           "n", "o", "p", "q", "r", "s", "t", "u", "v", "w", "x", "y", "z"}

\* s[i..] (1-based), empty when i is past the end
Drop(s, i) == SubSeq(s, i, Len(s))

\* s.startswith(p, at position i)
StartsWithAt(s, i, p) ==
    /\ i + Len(p) - 1 <= Len(s)
    /\ \A k \in 1..Len(p) : s[i + k - 1] = p[k]

\* p in s  (substring containment)
Contains(s, p) == \E i \in 1..(Len(s) + 1) : StartsWithAt(s, i, p)

\* int(digits): the value of a non-empty run of decimal digits
RECURSIVE StrToInt(_)
StrToInt(ds) ==
    IF ds = <<>> THEN 0
    ELSE 10 * StrToInt(SubSeq(ds, 1, Len(ds) - 1)) + DigitVal(ds[Len(ds)])

\* str(n) for n >= 0
RECURSIVE IntToStr(_)
IntToStr(n) ==
    IF n < 10 THEN <<DigitChars[n + 1]>>
    ELSE IntToStr(n \div 10) \o <<DigitChars[(n % 10) + 1]>>

\* str.strip(): leading and trailing whitespace removed
RECURSIVE LStrip(_)
LStrip(s) == IF s # <<>> /\ IsSpace(Head(s)) THEN LStrip(Tail(s)) ELSE s

RECURSIVE RStrip(_)
RStrip(s) ==
    IF s # <<>> /\ IsSpace(s[Len(s)]) THEN RStrip(SubSeq(s, 1, Len(s) - 1))
    ELSE s

Strip(s) == LStrip(RStrip(s))

\* tag.lstrip("v"): EVERY leading "v" is removed
RECURSIVE LStripV(_)
LStripV(s) == IF s # <<>> /\ Head(s) = "v" THEN LStripV(Tail(s)) ELSE s

\* the end (exclusive) of the run of digits that starts at position i
RECURSIVE DigitsEnd(_, _)
DigitsEnd(s, i) ==
    IF i <= Len(s) /\ IsDigit(s[i]) THEN DigitsEnd(s, i + 1) ELSE i

(***************************************************************************)
(* packaging.version.Version, as discover_tag.py uses it: the PEP 440       *)
(* grammar  v? N(.N)* [{-_.}? label {-_.}? N?] [{-_.}? dev {-_.}? N?]      *)
(* over lower-case strings.  Epoch, post-release and local segments are    *)
(* not part of the modelled alphabet.                                      *)
(* A version is [release: Seq(Nat), pre: None | Some([l, n]),              *)
(* dev: None | Some(n)].                                                   *)
(***************************************************************************)
IsSep(c) == c \in {"-", "_", "."}

\* release: [0-9]+(\.[0-9]+)* starting at i; no release when none matches
RECURSIVE ReleaseFrom(_, _, _)
ReleaseNext(s, i, acc, e) ==
    ReleaseFrom(s, e, Append(acc, StrToInt(SubSeq(s, i + 1, e - 1))))

ReleaseFrom(s, i, acc) ==
    IF i + 1 <= Len(s) /\ s[i] = "." /\ IsDigit(s[i + 1])
    THEN ReleaseNext(s, i, acc, DigitsEnd(s, i + 1))
    ELSE [release |-> acc, pos |-> i]

ReleaseFirst(s, i, e) ==
    IF e = i THEN [release |-> <<>>, pos |-> i]
    ELSE ReleaseFrom(s, e, <<StrToInt(SubSeq(s, i, e - 1))>>)

MatchRelease(s, i) == ReleaseFirst(s, i, DigitsEnd(s, i))

\* the pre-release labels of the grammar, longest first, with the label each
\* is normalised to (alpha -> a, beta -> b, c / pre / preview -> rc)
PreLabels ==
    << [w |-> <<"p", "r", "e", "v", "i", "e", "w">>, l |-> "rc"],
       [w |-> <<"a", "l", "p", "h", "a">>,           l |-> "a"],
       [w |-> <<"b", "e", "t", "a">>,                l |-> "b"],
       [w |-> <<"p", "r", "e">>,                     l |-> "rc"],
       [w |-> <<"r", "c">>,                          l |-> "rc"],
       [w |-> <<"a">>,                               l |-> "a"],
       [w |-> <<"b">>,                               l |-> "b"],
       [w |-> <<"c">>,                               l |-> "rc"] >>

DevLabels == << [w |-> <<"d", "e", "v">>, l |-> "dev"] >>

\* [-_.]? label [-_.]? [0-9]* at i: [found, l, n, pos]; a missing number is 0
SkipSep(s, i) == IF i <= Len(s) /\ IsSep(s[i]) THEN i + 1 ELSE i

MinOf(S) == CHOOSE x \in S : \A y \in S : x <= y

SegmentEnd(s, l, b, e) ==
    [found |-> TRUE, l |-> l,
     n |-> IF e > b THEN StrToInt(SubSeq(s, b, e - 1)) ELSE 0,
     pos |-> e]

SegmentNumber(s, l, b) == SegmentEnd(s, l, b, DigitsEnd(s, b))

SegmentLabel(s, i, j, labels, hits) ==
    IF hits = {} THEN [found |-> FALSE, l |-> "", n |-> 0, pos |-> i]
    ELSE SegmentNumber(s, labels[MinOf(hits)].l,
                       SkipSep(s, j + Len(labels[MinOf(hits)].w)))

SegmentAt(s, i, j, labels) ==
    SegmentLabel(s, i, j, labels,
                 {k \in 1..Len(labels) : StartsWithAt(s, j, labels[k].w)})

MatchSegment(s, i, labels) == SegmentAt(s, i, SkipSep(s, i), labels)

\* Version(raw): None for InvalidVersion
MakeVersion(s, rel, pre, dev) ==
    IF rel.release = <<>> \/ dev.pos # Len(s) + 1 THEN None
    ELSE Some([release |-> rel.release,
               pre |-> IF pre.found THEN Some([l |-> pre.l, n |-> pre.n])
                       ELSE None,
               dev |-> IF dev.found THEN Some(dev.n) ELSE None])

ParseAfterPre(s, rel, pre) ==
    MakeVersion(s, rel, pre, MatchSegment(s, pre.pos, DevLabels))

ParseAfterRelease(s, rel) ==
    ParseAfterPre(s, rel, MatchSegment(s, rel.pos, PreLabels))

ParseStripped(s) ==
    ParseAfterRelease(s, MatchRelease(s, IF s # <<>> /\ s[1] = "v" THEN 2 ELSE 1))

ParseVersion(raw) == ParseStripped(Strip(raw))

\* str(version): the canonical spelling
RECURSIVE JoinRelease(_)
JoinRelease(rel) ==
    IF Len(rel) = 1 THEN IntToStr(rel[1])
    ELSE JoinRelease(SubSeq(rel, 1, Len(rel) - 1)) \o <<".">> \o IntToStr(rel[Len(rel)])

LabelChars(l) ==
    CASE l = "rc" -> <<"r", "c">>
      [] l = "a"  -> <<"a">>
      [] l = "b"  -> <<"b">>

VersionStr(ver) ==
    JoinRelease(ver.release)
      \o (IF ver.pre = None THEN <<>>
          ELSE LabelChars(ver.pre[1].l) \o IntToStr(ver.pre[1].n))
      \o (IF ver.dev = None THEN <<>>
          ELSE <<".", "d", "e", "v">> \o IntToStr(ver.dev[1]))

(***************************************************************************)
(* Version ordering: packaging's comparison key.  Release with trailing    *)
(* zeros stripped; a dev release without a pre-release sorts before every  *)
(* pre-release, a version without a pre-release after them; a version      *)
(* without a dev segment sorts after every dev release of it.              *)
(***************************************************************************)
RECURSIVE StripTrailingZeros(_)
StripTrailingZeros(rel) ==
    IF rel # <<>> /\ rel[Len(rel)] = 0
    THEN StripTrailingZeros(SubSeq(rel, 1, Len(rel) - 1))
    ELSE rel

\* Python's tuple order on tuples of integers
RECURSIVE TupleLess(_, _)
TupleLess(a, b) ==
    IF a = <<>> THEN b # <<>>
    ELSE IF b = <<>> THEN FALSE
    ELSE IF Head(a) # Head(b) THEN Head(a) < Head(b)
    ELSE TupleLess(Tail(a), Tail(b))

\* "a" < "b" < "rc" as strings
LabelRank(l) == CASE l = "a" -> 1 [] l = "b" -> 2 [] l = "rc" -> 3

PreKey(ver) ==
    IF ver.pre = None /\ ver.dev # None THEN <<0, 0, 0>>
    ELSE IF ver.pre = None THEN <<2, 0, 0>>
    ELSE <<1, LabelRank(ver.pre[1].l), ver.pre[1].n>>

DevKey(ver) == IF ver.dev = None THEN <<1, 0>> ELSE <<0, ver.dev[1]>>

\* a < b by numeric comparison of the keys
ReleaseKeyLess(ra, rb, a, b) ==
    \/ TupleLess(ra, rb)
    \/ /\ ra = rb
       /\ \/ TupleLess(PreKey(a), PreKey(b))
          \/ PreKey(a) = PreKey(b) /\ TupleLess(DevKey(a), DevKey(b))

KeyLess(a, b) ==
    ReleaseKeyLess(StripTrailingZeros(a.release), StripTrailingZeros(b.release),
                   a, b)

\* the characters of the alphabet in code-point order
CharOrder ==
    <<"\n", " ", "-", ".", "0", "1", "2", "3", "4", "5", "6", "7", "8", "9",
      "_", "a", "b", "c", "d", "e", "f", "g", "h", "i", "j", "k", "l", "m",
      "n", "o", "p", "q", "r", "s", "t", "u", "v", "w", "x", "y", "z">>

CharCode(c) == CHOOSE i \in 1..Len(CharOrder) : CharOrder[i] = c

\* string order: what sorting the version strings would give
RECURSIVE StrLess(_, _)
StrLess(a, b) ==
    IF a = <<>> THEN b # <<>>
    ELSE IF b = <<>> THEN FALSE
    ELSE IF Head(a) # Head(b) THEN CharCode(Head(a)) < CharCode(Head(b))
    ELSE StrLess(Tail(a), Tail(b))

\* the version strings compared as text
LexicalLess(a, b) == StrLess(VersionStr(a), VersionStr(b))

\* Version.__lt__
VersionLess(a, b) == KeyLess(a, b)

(***************************************************************************)
(* discover_tag.py: pure helpers                                           *)
(***************************************************************************)
PatDev == <<"d", "e", "v">>

PatRc == <<"r", "c">>

PatStable == <<"s", "t", "a", "b", "l", "e">>

\* one leading "v" removed and no more
ParseTagOneV(tag) ==
    ParseVersion(IF tag # <<>> /\ Head(tag) = "v" THEN Tail(tag) ELSE tag)

\* _parse_tag
ParseTag(tag) == ParseVersion(LStripV(tag))

\* _is_dev_tag
IsDevTag(version) == version.dev # None

\* any pre-release label counted as rc
IsRcTagAnyPre(version) == version.pre # None

\* _is_rc_tag
IsRcTag(version) == version.pre # None /\ version.pre[1].l = "rc"

Matcher(pattern, version) ==
    IF pattern = PatDev THEN IsDevTag(version) ELSE IsRcTag(version)

\* _filter_by_pattern: the (original_tag, parsed_version) pairs, in order
KeepIfMatch(tag, parsed, pattern) ==
    IF parsed # None /\ Matcher(pattern, parsed[1])
    THEN <<[tag |-> tag, version |-> parsed[1]]>>
    ELSE <<>>

\* the loop ends at the first tag that does not parse
RECURSIVE FilterStopAtInvalid(_, _)
FilterStopAtInvalid(tagList, pattern) ==
    IF tagList = <<>> \/ ParseTag(Head(tagList)) = None THEN <<>>
    ELSE KeepIfMatch(Head(tagList), ParseTag(Head(tagList)), pattern)
           \o FilterStopAtInvalid(Tail(tagList), pattern)

RECURSIVE FilterByPattern(_, _)
FilterByPattern(tagList, pattern) ==
    IF tagList = <<>> THEN <<>>
    ELSE KeepIfMatch(Head(tagList), ParseTag(Head(tagList)), pattern)
           \o FilterByPattern(Tail(tagList), pattern)

\* _split_tag_list, on the pieces tag_list_str.split(",") gives
NonBlank(stripped) == IF stripped # <<>> THEN <<stripped>> ELSE <<>>

RECURSIVE SplitTagList(_)
SplitTagList(pieces) ==
    IF pieces = <<>> THEN <<>>
    ELSE NonBlank(Strip(Head(pieces))) \o SplitTagList(Tail(pieces))

GuidanceDev == "No dev tags found. Run Stage 1 (Dev Release) first."

GuidanceRc == "No rc tags found. Run Stage 2 (RC Release) first."

\* the rc text for every pattern
StageGuidanceRcOnly(pattern) == GuidanceRc

\* _stage_guidance
StageGuidance(pattern) == IF pattern = PatDev THEN GuidanceDev ELSE GuidanceRc

\* max(matched, key=lambda pair: pair[1]): the first maximal pair
RECURSIVE MaxFrom(_, _)
MaxFrom(best, rest) ==
    IF rest = <<>> THEN best
    ELSE MaxFrom(IF VersionLess(best.version, Head(rest).version)
                 THEN Head(rest) ELSE best,
                 Tail(rest))

MaxPair(matched) == MaxFrom(Head(matched), Tail(matched))

\* the JSON payloads: functions from key to value
SuccessPayload(tag, version, commits_behind) ==
    [tag |-> tag, version |-> version, found |-> TRUE,
     commits_behind |-> commits_behind]

NotFoundPayload(error) ==
    [tag |-> None, version |-> None, found |-> FALSE, error |-> error]

ErrorPayload(error) == [error |-> error]

\* a message: its fixed text and the value formatted into it
Msg(text, arg) == [text |-> text, arg |-> arg]

InvalidPatternText == "Invalid pattern '{pattern}'. Must be 'dev' or 'rc'."

TagNotFoundText == "Tag '{target}' not found in tag list."

(***************************************************************************)
(* Inputs: the raw tag strings a run can be given                          *)
(***************************************************************************)
\* the tags the model supplies, by a short name
TagInput ==
     \* "v1.1.23.dev1"
    [dev1 |->
        <<"v", "1", ".", "1", ".", "2", "3", ".", "d", "e", "v", "1">>,
     \* "v1.1.22.dev2"
     old_dev2 |->
        <<"v", "1", ".", "1", ".", "2", "2", ".", "d", "e", "v", "2">>,
     \* "v1.1.23.0.dev1"
     dev1_zero |->
        <<"v", "1", ".", "1", ".", "2", "3", ".", "0", ".", "d", "e", "v", "1">>,
     \* "v1.1.23.dev9"
     dev9 |->
        <<"v", "1", ".", "1", ".", "2", "3", ".", "d", "e", "v", "9">>,
     \* "v1.1.23.dev11"
     dev11 |->
        <<"v", "1", ".", "1", ".", "2", "3", ".", "d", "e", "v", "1", "1"
         >>,
     \* "v1.1.23rc9"
     rc9 |->
        <<"v", "1", ".", "1", ".", "2", "3", "r", "c", "9">>,
     \* "1.1.23-rc.11"
     rc11_plain |->
        <<"1", ".", "1", ".", "2", "3", "-", "r", "c", ".", "1", "1">>,
     \* "vv1.1.23.dev1"
     vv_dev1 |->
        <<"v", "v", "1", ".", "1", ".", "2", "3", ".", "d", "e", "v", "1"
         >>,
     \* "v1.1.24b1"
     beta |->
        <<"v", "1", ".", "1", ".", "2", "4", "b", "1">>,
     \* "v1.1.22rc1.dev1"
     rc_dev |->
        <<"v", "1", ".", "1", ".", "2", "2", "r", "c", "1", ".", "d", "e",
          "v", "1">>,
     \* "v1.1.23"
     final |->
        <<"v", "1", ".", "1", ".", "2", "3">>,
     \* "garbage"
     garbage |->
        <<"g", "a", "r", "b", "a", "g", "e">>,
     \* "not-a-version"
     not_a_version |->
        <<"n", "o", "t", "-", "a", "-", "v", "e", "r", "s", "i", "o", "n"
         >>,
     \* " "
     blank |->
        <<" ">>]

ItemUniverse == {TagInput[f] : f \in DOMAIN TagInput}

ValidateTargets == {TagInput.old_dev2, TagInput.rc11_plain, TagInput.vv_dev1, TagInput.final, TagInput.garbage}

Patterns == {PatDev, PatRc, PatStable}

\* the longest tag collection
MaxItems == 2

\* the largest commit count git rev-list reports
MaxBehind == 1

(***************************************************************************)
(* discover_tag.py: discover and validate as functions of their arguments  *)
(***************************************************************************)
\* what a call leaves behind: the payload printed and the exit code
Outcome(payload, code) == [payload |-> payload, code |-> code]

\* _output_success
OutputSuccess(tag, version, commits_behind) ==
    Outcome(SuccessPayload(tag, version, commits_behind), 0)

\* _output_not_found
OutputNotFound(error) == Outcome(NotFoundPayload(error), 1)

\* _output_error
OutputError(error) == Outcome(ErrorPayload(error), 2)

\* the original tag of the pair
TagStrRaw(pair) == pair.tag

\* tag_str = f"v{highest_version}"
TagStr(pair) == <<"v">> \o VersionStr(pair.version)

\* git consulted whatever --tag-list holds
UseGitAlways(tag_list) == TRUE

\* use_git = args.tag_list is None
UseGit(tag_list) == tag_list = None

\* discover(tags, pattern, use_git), given what _commits_behind returns
ReportHighest(highest, staleness) ==
    OutputSuccess(TagStr(highest), VersionStr(highest.version), staleness)

DiscoverMatched(matched, pattern, staleness) ==
    IF matched = <<>>
    THEN OutputNotFound(Msg(StageGuidance(pattern), <<>>))
    ELSE ReportHighest(MaxPair(matched), staleness)

DiscoverOutcome(tagList, pattern, staleness) ==
    DiscoverMatched(FilterByPattern(tagList, pattern), pattern, staleness)

\* the target is parsed and not looked up in the list
ValidateNoMembership(tagList, target, parsed) ==
    IF parsed # None
    THEN OutputSuccess(target, VersionStr(parsed[1]), None)
    ELSE OutputNotFound(Msg(TagNotFoundText, target))

\* validate(tags, target)
ValidateParsed(tagList, target, parsed) ==
    IF (\E i \in 1..Len(tagList) : tagList[i] = target) /\ parsed # None
    THEN OutputSuccess(target, VersionStr(parsed[1]), None)
    ELSE OutputNotFound(Msg(TagNotFoundText, target))

ValidateOutcome(tagList, target) ==
    ValidateParsed(tagList, target, ParseTag(target))

(***************************************************************************)
(* generate_changelog.py: commit classification                            *)
(***************************************************************************)
\* the record terminator and the field separator of the git log format
\* "%s%x00%b%x00%h<<--EOR-->>", each one token of the log
EOR == "<<--EOR-->>"

NUL == "%x00"

ChoreReleaseMarker == <<"c", "h", "o", "r", "e", "(", "r", "e", "l", "e", "a", "s", "e",
      ")", ":">>

SkipCiMarker == <<"[", "s", "k", "i", "p", " ", "c", "i", "]">>

BreakingChangeMarker == <<"B", "R", "E", "A", "K", "I", "N", "G", " ", "C", "H", "A", "N",
      "G", "E", ":">>

TypeFeat == <<"f", "e", "a", "t">>

TypeFix == <<"f", "i", "x">>

\* str.split(sep): the pieces between the separators, empty ones included;
\* i is where the current piece starts, cur holds the pieces already cut
RECURSIVE SplitAcc(_, _, _, _)
SplitAcc(s, sep, i, cur) ==
    LET seps == {j \in i..Len(s) : s[j] = sep}
    IN  IF seps = {} THEN Append(cur, SubSeq(s, i, Len(s)))
        ELSE LET j == CHOOSE m \in seps : \A k \in seps : m <= k
             IN  SplitAcc(s, sep, j + 1, Append(cur, SubSeq(s, i, j - 1)))

Split(s, sep) == SplitAcc(s, sep, 1, <<>>)

\* the end (exclusive) of the run of [a-z] that starts at position i
RECURSIVE LowerEnd(_, _)
LowerEnd(s, i) ==
    IF i <= Len(s) /\ IsLower(s[i]) THEN LowerEnd(s, i + 1) ELSE i

\* (?:\((?P<scope>[^)]*)\))? at position i: the position after the group,
\* i when no group starts there, 0 when "(" has no closing ")"
ScopeEnd(s, i) ==
    IF i <= Len(s) /\ s[i] = "("
    THEN IF \E k \in (i + 1)..Len(s) : s[k] = ")"
         THEN (CHOOSE k \in (i + 1)..Len(s) :
                  s[k] = ")" /\ \A m \in (i + 1)..(k - 1) : s[m] # ")") + 1
         ELSE 0
    ELSE i

\* (?P<bang>!)? at position j
BangEnd(s, j) == IF j >= 1 /\ j <= Len(s) /\ s[j] = "!" THEN j + 1 ELSE j

\* \s*(?P<desc>.+)$ on what follows the colon
MatchDesc(s, i, j, k, rest) ==
    IF rest = <<>> THEN None
    ELSE Some([type  |-> SubSeq(s, 1, i - 1),
               scope |-> IF j > i THEN SubSeq(s, i + 1, j - 2) ELSE <<>>,
               bang  |-> k > j,
               desc  |-> IF LStrip(rest) = <<>> THEN <<rest[Len(rest)]>>
                         ELSE LStrip(rest)])

MatchColon(s, i, j, k) ==
    IF j = 0 \/ k > Len(s) \/ s[k] # ":" THEN None
    ELSE MatchDesc(s, i, j, k, Drop(s, k + 1))

MatchScope(s, i, j) == MatchColon(s, i, j, BangEnd(s, j))

MatchType(s, i) == IF i = 1 THEN None ELSE MatchScope(s, i, ScopeEnd(s, i))

\* _parse_conventional_commit: _CONVENTIONAL_RE.match(subject) on a subject
\* of one line; None or Some([type, scope, bang, desc])
ParseConventionalCommit(subject) == MatchType(subject, LowerEnd(subject, 1))

\* "chore(release):" in subject or "[skip ci]" in subject
IsExcluded(subject) ==
    Contains(subject, ChoreReleaseMarker) \/ Contains(subject, SkipCiMarker)

\* (parsed and parsed["bang"]) or "BREAKING CHANGE:" in body
IsBreaking(parsed, body) ==
    (parsed # None /\ parsed[1].bang) \/ Contains(body, BreakingChangeMarker)

\* the type is matched by its first letters
CategoryByPrefix(parsed, body) ==
    IF IsBreaking(parsed, body) THEN "breaking"
    ELSE IF parsed = None THEN "other"
    ELSE IF StartsWithAt(parsed[1].type, 1, TypeFeat) THEN "features"
    ELSE IF StartsWithAt(parsed[1].type, 1, TypeFix) THEN "fixes"
    ELSE "other"

\* the type is looked at before the breaking flag
CategoryTypeFirst(parsed, body) ==
    IF parsed # None /\ parsed[1].type = TypeFeat THEN "features"
    ELSE IF parsed # None /\ parsed[1].type = TypeFix THEN "fixes"
    ELSE IF IsBreaking(parsed, body) THEN "breaking"
    ELSE "other"

\* the if / elif chain of _categorize_commits: the list the line goes to
CategoryOf(parsed, body) ==
    IF IsBreaking(parsed, body) THEN "breaking"
    ELSE IF parsed = None THEN "other"
    ELSE IF parsed[1].type = TypeFeat THEN "features"
    ELSE IF parsed[1].type = TypeFix THEN "fixes"
    ELSE "other"

\* the backquote character, one token
Backquote == "backquote"

\* f"- {subject} ({Backquote}{sha}{Backquote})"
Line(subject, sha) ==
    <<"-", " ">> \o subject \o <<" ", "(", Backquote>> \o sha \o <<Backquote, ")">>

\* commit records as git log prints them (subject NUL body NUL hash), and
\* malformed ones
\* the git log records the model supplies, by a short name
RecordInput ==
     \* feat: x||a1
    [feat |->
        <<"f", "e", "a", "t", ":", " ", "x", NUL, NUL, "a", "1">>,
     \* feat!: x||a2
     feat_bang |->
        <<"f", "e", "a", "t", "!", ":", " ", "x", NUL, NUL, "a", "2">>,
     \* fix: y|BREAKING CHANGE: q|a3
     fix_breaking_body |->
        <<"f", "i", "x", ":", " ", "y", NUL, "B", "R", "E", "A", "K", "I",
          "N", "G", " ", "C", "H", "A", "N", "G", "E", ":", " ", "q", NUL,
          "a", "3">>,
     \* fix(core): y||a4
     fix_scope |->
        <<"f", "i", "x", "(", "c", "o", "r", "e", ")", ":", " ", "y", NUL,
          NUL, "a", "4">>,
     \* docs: z||a5
     docs |->
        <<"d", "o", "c", "s", ":", " ", "z", NUL, NUL, "a", "5">>,
     \* feature: x||a6
     feature |->
        <<"f", "e", "a", "t", "u", "r", "e", ":", " ", "x", NUL, NUL, "a",
          "6">>,
     \* update||a7
     plain |->
        <<"u", "p", "d", "a", "t", "e", NUL, NUL, "a", "7">>,
     \* update|BREAKING CHANGE: q|a8
     plain_breaking_body |->
        <<"u", "p", "d", "a", "t", "e", NUL, "B", "R", "E", "A", "K", "I",
          "N", "G", " ", "C", "H", "A", "N", "G", "E", ":", " ", "q", NUL,
          "a", "8">>,
     \* chore(release): v1||b1
     release |->
        <<"c", "h", "o", "r", "e", "(", "r", "e", "l", "e", "a", "s", "e",
          ")", ":", " ", "v", "1", NUL, NUL, "b", "1">>,
     \* chore(release)!: v1||b2
     release_bang |->
        <<"c", "h", "o", "r", "e", "(", "r", "e", "l", "e", "a", "s", "e",
          ")", "!", ":", " ", "v", "1", NUL, NUL, "b", "2">>,
     \* fix: y [skip ci]|BREAKING CHANGE: q|b3
     skip_ci_breaking_body |->
        <<"f", "i", "x", ":", " ", "y", " ", "[", "s", "k", "i", "p", " ",
          "c", "i", "]", NUL, "B", "R", "E", "A", "K", "I", "N", "G", " ",
          "C", "H", "A", "N", "G", "E", ":", " ", "q", NUL, "b", "3">>,
     \* feat: x|a1
     two_fields |->
        <<"f", "e", "a", "t", ":", " ", "x", NUL, "a", "1">>,
     \*  
     blank |->
        <<" ">>,
     \* feat: x|| 
     no_sha |->
        <<"f", "e", "a", "t", ":", " ", "x", NUL, NUL, " ">>,
     \* fixes: y||a9
     fixes |->
        <<"f", "i", "x", "e", "s", ":", " ", "y", NUL, NUL, "a", "9">>]

RecordUniverse == {RecordInput[f] : f \in DOMAIN RecordInput}

\* the most records a log holds
MaxRecords == 2

(***************************************************************************)
(* generate_changelog.py: _render_markdown.  The literal pieces of the     *)
(* templates are one token each, the interpolated values are spliced in    *)
(* character by character.                                                 *)
(***************************************************************************)
StageDev == <<"d", "e", "v">>

StageRc == <<"r", "c">>

StageStable == <<"s", "t", "a", "b", "l", "e">>

\* parse_args: choices=("dev", "rc", "stable")
Stages == {StageDev, StageRc, StageStable}

CodeFence == <<Backquote, Backquote, Backquote>>

\* f"**Dev snapshot** {Backquote}{version}{Backquote} ({release_date})\n"
DevHeader(version, release_date) ==
    <<"**Dev snapshot** ", Backquote>> \o version \o <<Backquote, " (">>
        \o release_date \o <<")", "\n">>

\* f"**Release candidate** {Backquote}{version}{Backquote} ({release_date})\n"
RcHeader(version, release_date) ==
    <<"**Release candidate** ", Backquote>> \o version \o <<Backquote, " (">>
        \o release_date \o <<")", "\n">>

\* f"# nWave Framework v{version}\n"
StableHeader(version) == <<"# nWave Framework v">> \o version \o <<"\n">>

\* f"**Release Date**: {release_date}\n"
ReleaseDateLine(release_date) ==
    <<"**Release Date**: ">> \o release_date \o <<"\n">>

\* f"**Promoted from**: {Backquote}{source_tag}{Backquote}\n"
PromotedFrom(source_tag) ==
    <<"**Promoted from**: ", Backquote>> \o source_tag \o <<Backquote, "\n">>

\* f"https://github.com/{repo}/compare/{prev_tag}...v{version}"
CompareUrl(repo, prev_tag, version) ==
    <<"https://github.com/">> \o repo \o <<"/compare/">> \o prev_tag
        \o <<"...v">> \o version

\* f"**Changes since**: [{prev_tag}](...)\n"
ChangesSince(repo, prev_tag, version) ==
    <<"**Changes since**: ", "[">> \o prev_tag \o <<"]", "(">>
        \o CompareUrl(repo, prev_tag, version) \o <<")", "\n">>

\* f"**Full Changelog**: [{prev_tag}...v{version}](...)\n"
FullChangelog(repo, prev_tag, version) ==
    <<"**Full Changelog**: ", "[">> \o prev_tag \o <<"...v">> \o version
        \o <<"]", "(">> \o CompareUrl(repo, prev_tag, version) \o <<")", "\n">>

\* the rc install block with the pip arguments left out
RcInstallNoPre(version) ==
    <<"## Install", "\n">> \o CodeFence \o <<"bash", "\n">>
        \o <<"pipx install nwave-ai==">> \o version
        \o <<"\n">> \o CodeFence \o <<"\n">>

\* "## Install\n" + fence + "bash\n" + the pipx command with --pre + fence
RcInstall(version) ==
    <<"## Install", "\n">> \o CodeFence \o <<"bash", "\n">>
        \o <<"pipx install nwave-ai==">> \o version
        \o <<" --pip-args=", "\"--pre\"", "\n">> \o CodeFence \o <<"\n">>

\* "## Installation\n" + fence + "bash\npipx install nwave-ai\n" + fence
StableInstall ==
    <<"## Installation", "\n">> \o CodeFence \o <<"bash", "\n">>
        \o <<"pipx install nwave-ai", "\n">> \o CodeFence \o <<"\n">>

EmptyDevRc == <<"No notable changes (internal improvements)", "\n">>

EmptyStable == <<"Patch release (internal improvements)", "\n">>

HeadingBreaking == <<"## Breaking Changes", "\n">>

HeadingFeatures == <<"## Features", "\n">>

HeadingFixes == <<"## Bug Fixes", "\n">>

HeadingOther == <<"## Other Changes", "\n">>

\* sep.join(parts)
RECURSIVE Join(_, _)
Join(parts, sep) ==
    IF parts = <<>> THEN <<>>
    ELSE IF Len(parts) = 1 THEN parts[1]
    ELSE parts[1] \o <<sep>> \o Join(Tail(parts), sep)

\* a block that is appended only under a condition
OptBlock(cond, block) == IF cond THEN <<block>> ELSE <<>>

\* if prev_tag or repo
HasLinkEither(repo, prev_tag) == prev_tag # <<>> \/ repo # <<>>

\* if prev_tag and repo
HasLink(repo, prev_tag) == prev_tag # <<>> /\ repo # <<>>

\* lines 219-225
FramingDev(version, repo, prev_tag, release_date) ==
    <<DevHeader(version, release_date)>>
        \o OptBlock(HasLink(repo, prev_tag), ChangesSince(repo, prev_tag, version))

\* the rc framing with the promoted line placed after the compare link
FramingRcPromotedAfterLink(version, source_tag, repo, prev_tag, release_date) ==
    <<RcHeader(version, release_date)>>
        \o OptBlock(HasLink(repo, prev_tag), ChangesSince(repo, prev_tag, version))
        \o OptBlock(source_tag # <<>>, PromotedFrom(source_tag))
        \o <<RcInstall(version)>>

\* lines 227-240
FramingRc(version, source_tag, repo, prev_tag, release_date) ==
    <<RcHeader(version, release_date)>>
        \o OptBlock(source_tag # <<>>, PromotedFrom(source_tag))
        \o OptBlock(HasLink(repo, prev_tag), ChangesSince(repo, prev_tag, version))
        \o <<RcInstall(version)>>

\* lines 242-252
FramingStable(version, source_tag, repo, prev_tag, release_date) ==
    <<StableHeader(version), ReleaseDateLine(release_date)>>
        \o OptBlock(source_tag # <<>>, PromotedFrom(source_tag))
        \o OptBlock(HasLink(repo, prev_tag), FullChangelog(repo, prev_tag, version))
        \o <<StableInstall>>

\* the if / elif / else on stage
Framing(stage, version, source_tag, repo, prev_tag, release_date) ==
    IF stage = StageDev THEN FramingDev(version, repo, prev_tag, release_date)
    ELSE IF stage = StageRc
    THEN FramingRc(version, source_tag, repo, prev_tag, release_date)
    ELSE FramingStable(version, source_tag, repo, prev_tag, release_date)

EmptyMessage(stage) ==
    IF stage = StageDev \/ stage = StageRc THEN EmptyDevRc ELSE EmptyStable

\* sections.extend([heading, "\n".join(list) + "\n"]) when the list is not empty
CategorySection(heading, list) ==
    IF list # <<>> THEN <<heading, Join(list, "\n") \o <<"\n">>>> ELSE <<>>

\* the features section put before the breaking section
CategorySectionsFeaturesFirst(categories) ==
    CategorySection(HeadingFeatures, categories.features)
        \o CategorySection(HeadingBreaking, categories.breaking)
        \o CategorySection(HeadingFixes, categories.fixes)
        \o CategorySection(HeadingOther, categories.other)

\* lines 255-267
CategorySections(categories) ==
    CategorySection(HeadingBreaking, categories.breaking)
        \o CategorySection(HeadingFeatures, categories.features)
        \o CategorySection(HeadingFixes, categories.fixes)
        \o CategorySection(HeadingOther, categories.other)

\* not all([...]): some list is empty
SomeEmpty(categories) ==
    \/ categories.breaking = <<>>
    \/ categories.features = <<>>
    \/ categories.fixes = <<>>
    \/ categories.other = <<>>

\* if not any([breaking, features, fixes, other_items])
AllEmpty(categories) ==
    /\ categories.breaking = <<>>
    /\ categories.features = <<>>
    /\ categories.fixes = <<>>
    /\ categories.other = <<>>

\* the list sections at the return of _render_markdown
RenderSections(stage, version, source_tag, repo, prev_tag, categories, release_date) ==
    Framing(stage, version, source_tag, repo, prev_tag, release_date)
        \o CategorySections(categories)
        \o OptBlock(AllEmpty(categories), EmptyMessage(stage))

\* the wall clock's date, as datetime.now(timezone.utc).strftime("%Y-%m-%d")
\* gives it
VARIABLE clock

\* a renderer that reads the clock for the date instead of its argument
RenderMarkdownReadsClock(stage, version, source_tag, repo, prev_tag, categories, release_date) ==
    Join(RenderSections(stage, version, source_tag, repo, prev_tag,
                        categories, clock), "\n")

\* _render_markdown: "\n".join(sections)
RenderMarkdown(stage, version, source_tag, repo, prev_tag, categories, release_date) ==
    Join(RenderSections(stage, version, source_tag, repo, prev_tag,
                        categories, release_date), "\n")

\* the values the renderer is called with
Version1 == <<"1", ".", "2">>

SourceTags == {<<>>, <<"v", "1", ".", "2", "r", "c", "1">>}

Repos == {<<>>, <<"o", "/", "r">>}

PrevTags == {<<>>, <<"v", "1", ".", "1">>}

\* the dates the clock shows: a day and the day after
Date1 == <<"2", "0", "2", "6", "-", "0", "1", "-", "0", "2">>

Date2 == <<"2", "0", "2", "6", "-", "0", "1", "-", "0", "3">>

(***************************************************************************)
(* discover_tag.py main: state                                             *)
(***************************************************************************)
VARIABLES
    items,      \* the tag strings that exist: the pieces of --tag-list, or
                \* the lines git tag -l prints
    argv,       \* None before the run; Some([pattern, validate, tag_list])
    pc,         \* "env" | "run" | "done" (main ended) | "returned" (a direct
                \* call of discover ended)
    tags,       \* main's local: the tag list read
    stdout,     \* the JSON payloads printed
    stderr,     \* what went to stderr: "usage" (argparse), "traceback"
    exitCode,   \* None | Some(code)
    gitCalls,   \* the git subprocesses run, in order
    raw_log,    \* the commit log handed to _categorize_commits
    cpc,        \* "env" | "loop" | "returned" | "rendered" | "rerendered"
    records,    \* raw_log.split(record_end), the list the loop walks
    idx,        \* the position of the loop in records
    breaking, features, fixes, other,   \* the four lists of lines
    rargs,      \* None | Some(the arguments _render_markdown was called with)
    notes,      \* the text _render_markdown returned
    fs0,        \* bump_version: the two files when the run starts; each is
                \* None (no such file) or Some(content)
    fs,         \* bump_version: the two files now
    bargs,      \* None | Some([version, pyproject, catalog]): which of the
                \* two paths were given
    bpc,        \* "env" | "pyproject" | "catalog" | "done"
    bout,       \* bump_version: the lines printed on stdout
    berr,       \* bump_version: what went to stderr
    bexit,      \* bump_version: None | Some(exit code)
    targs,      \* read_toml_field: None | Some([file, key]); file is what is
                \* at the path: None, an unparseable text or a document
    tpc,        \* "env" | "resolve" | "done"
    tout,       \* read_toml_field: the values printed on stdout
    terr,       \* read_toml_field: what went to stderr
    texit       \* read_toml_field: None | Some(exit code)

dvars == <<items, argv, pc, tags, stdout, stderr, exitCode, gitCalls>>

cvars == <<raw_log, cpc, records, idx, breaking, features, fixes, other>>

bvars == <<fs0, fs, bargs, bpc, bout, berr, bexit>>

tvars == <<targs, tpc, tout, terr, texit>>

rvars == <<rargs, notes, clock, bvars, tvars>>

vars == <<dvars, cvars, rvars>>

Init ==
    /\ items = <<>>
    /\ argv = None
    /\ pc = "env"
    /\ tags = <<>>
    /\ stdout = <<>>
    /\ stderr = <<>>
    /\ exitCode = None
    /\ gitCalls = <<>>
    /\ raw_log = <<>>
    /\ cpc = "env"
    /\ records = <<>>
    /\ idx = 1
    /\ breaking = <<>>
    /\ features = <<>>
    /\ fixes = <<>>
    /\ other = <<>>
    /\ rargs = None
    /\ notes = <<>>
    /\ clock = Date1
    /\ fs0 = [pyproject |-> None, catalog |-> None]
    /\ fs = [pyproject |-> None, catalog |-> None]
    /\ bargs = None
    /\ bpc = "env"
    /\ bout = <<>>
    /\ berr = <<>>
    /\ bexit = None
    /\ targs = None
    /\ tpc = "env"
    /\ tout = <<>>
    /\ terr = <<>>
    /\ texit = None

\* the environment: one more tag exists before the run
AddItem(t) ==
    /\ pc = "env"
    /\ Len(items) < MaxItems
    /\ items' = Append(items, t)
    /\ UNCHANGED <<argv, pc, tags, stdout, stderr, exitCode, gitCalls>>
    /\ UNCHANGED <<cvars, rvars>>

\* _emit_and_exit: print the payload, sys.exit(code)
EmitAndExit(out) ==
    /\ stdout' = Append(stdout, out.payload)
    /\ exitCode' = Some(out.code)
    /\ pc' = "done"
    /\ UNCHANGED stderr

\* the process ends without a payload: argparse's error (exit 2) or an
\* exception nobody catches (exit 1)
Die(what, code) ==
    /\ stderr' = Append(stderr, what)
    /\ exitCode' = Some(code)
    /\ pc' = "done"
    /\ UNCHANGED stdout

GitCall(cmd, arg) == [cmd |-> cmd, arg |-> arg]

\* main, lines 177-186: parse_args, the pattern check, then the tag list is
\* read.  git is how subprocess.run(["git", ...]) ends in this environment:
\* "ok", "fail" (a non-zero return code) or "missing" (no executable:
\* FileNotFoundError, which nothing catches)
MainStart(pattern, validate, use_git, git) ==
    /\ pc = "env"
    /\ UNCHANGED <<cvars, rvars>>
    /\ argv' = Some([pattern |-> pattern, validate |-> validate,
                     tag_list |-> IF use_git THEN None ELSE Some(items)])
    /\ IF pattern = None
       THEN /\ Die("usage", 2)
            /\ UNCHANGED <<items, tags, gitCalls>>
       ELSE IF pattern[1] \notin {PatDev, PatRc}
       THEN /\ EmitAndExit(OutputError(Msg(InvalidPatternText, pattern[1])))
            /\ UNCHANGED <<items, tags, gitCalls>>
       ELSE IF ~use_git
       THEN /\ tags' = SplitTagList(items)
            /\ pc' = "run"
            /\ UNCHANGED <<items, stdout, stderr, exitCode, gitCalls>>
       ELSE /\ gitCalls' = Append(gitCalls, GitCall("tag -l", <<>>))
            /\ IF git = "missing"
               THEN /\ Die("traceback", 1)
                    /\ UNCHANGED <<items, tags>>
               ELSE /\ tags' = IF git = "ok" THEN SplitTagList(items) ELSE <<>>
                    /\ pc' = "run"
                    /\ UNCHANGED <<items, stdout, stderr, exitCode>>

\* a validate that accepts the target only when it is a tag of the stage
ValidateStageScoped ==
    /\ pc = "run"
    /\ argv[1].validate # None
    /\ EmitAndExit(
          IF /\ ParseTag(argv[1].validate[1]) # None
             /\ ~Matcher(argv[1].pattern[1], ParseTag(argv[1].validate[1])[1])
          THEN OutputNotFound(Msg(TagNotFoundText, argv[1].validate[1]))
          ELSE ValidateOutcome(tags, argv[1].validate[1]))
    /\ UNCHANGED <<items, argv, tags, gitCalls>>
    /\ UNCHANGED <<cvars, rvars>>

\* main, lines 188-189
Validate ==
    /\ pc = "run"
    /\ argv[1].validate # None
    /\ EmitAndExit(ValidateOutcome(tags, argv[1].validate[1]))
    /\ UNCHANGED <<items, argv, tags, gitCalls>>
    /\ UNCHANGED <<cvars, rvars>>

\* _commits_behind(tag): git rev-list --count tag..HEAD; None when git
\* fails, as it does for a tag that does not exist
CommitsBehindOutcomes(tag) ==
    {None} \cup
    (IF \E i \in 1..Len(tags) : tags[i] = tag
     THEN {Some(n) : n \in 0..MaxBehind} ELSE {})

\* main, lines 190-191: discover; base is what it reports without staleness
DiscoverReport(base) ==
    IF base.payload.found /\ UseGit(argv[1].tag_list)
    THEN /\ gitCalls' = Append(gitCalls, GitCall("rev-list --count", base.payload.tag))
         /\ \E staleness \in CommitsBehindOutcomes(base.payload.tag) :
               EmitAndExit([base EXCEPT !.payload.commits_behind = staleness])
    ELSE /\ EmitAndExit(base)
         /\ UNCHANGED gitCalls

Discover ==
    /\ pc = "run"
    /\ argv[1].validate = None
    /\ DiscoverReport(DiscoverOutcome(tags, argv[1].pattern[1], None))
    /\ UNCHANGED <<items, argv, tags>>
    /\ UNCHANGED <<cvars, rvars>>

\* discover(tags, pattern) called directly, as an importing caller does,
\* with use_git left at its default False; argv records the arguments
CallDiscover(pattern) ==
    /\ pc = "env"
    /\ argv' = Some([pattern |-> Some(pattern), validate |-> None,
                     tag_list |-> Some(items)])
    /\ tags' = items
    /\ stdout' = Append(stdout, DiscoverOutcome(items, pattern, None).payload)
    /\ exitCode' = Some(DiscoverOutcome(items, pattern, None).code)
    /\ pc' = "returned"
    /\ UNCHANGED <<items, stderr, gitCalls>>
    /\ UNCHANGED <<cvars, rvars>>

Next ==
    \/ \E t \in ItemUniverse : AddItem(t)
    \/ \E pattern \in Patterns : CallDiscover(pattern)
    \/ \E pattern \in {None} \cup {Some(p) : p \in Patterns},
          validate \in {None} \cup {Some(t) : t \in ValidateTargets},
          use_git \in BOOLEAN, git \in {"ok", "fail", "missing"} :
          MainStart(pattern, validate, use_git, git)
    \/ Validate
    \/ Discover

Spec == Init /\ [][Next]_vars

(***************************************************************************)
(* generate_changelog.py: _categorize_commits, one loop iteration a step   *)
(***************************************************************************)
\* the environment: git log prints one more commit, a newline between
\* commits and the record terminator after each
AddRecord(r) ==
    /\ cpc = "env"
    /\ Len(Split(raw_log, EOR)) <= MaxRecords
    /\ raw_log' = raw_log \o (IF raw_log = <<>> THEN <<>> ELSE <<"\n">>)
                          \o r \o <<EOR>>
    /\ UNCHANGED <<cpc, records, idx, breaking, features, fixes, other>>
    /\ UNCHANGED <<dvars, rvars>>

\* _categorize_commits(raw_log), lines 161-167: the lists are empty and the
\* log is split
CategorizeStart ==
    /\ cpc = "env"
    /\ cpc' = "loop"
    /\ records' = Split(raw_log, EOR)
    /\ idx' = 1
    /\ breaking' = <<>>
    /\ features' = <<>>
    /\ fixes' = <<>>
    /\ other' = <<>>
    /\ UNCHANGED raw_log
    /\ UNCHANGED <<dvars, rvars>>

\* continue: the record adds nothing
SkipRecord == UNCHANGED <<breaking, features, fixes, other>>

\* the line is put at the front of the list of its category
PrependLine(category, line) ==
    /\ breaking' = IF category = "breaking" THEN <<line>> \o breaking ELSE breaking
    /\ features' = IF category = "features" THEN <<line>> \o features ELSE features
    /\ fixes' = IF category = "fixes" THEN <<line>> \o fixes ELSE fixes
    /\ other' = IF category = "other" THEN <<line>> \o other ELSE other

\* a breaking line is appended to other as well
AppendLineBreakingTwice(category, line) ==
    /\ breaking' = IF category = "breaking" THEN Append(breaking, line) ELSE breaking
    /\ features' = IF category = "features" THEN Append(features, line) ELSE features
    /\ fixes' = IF category = "fixes" THEN Append(fixes, line) ELSE fixes
    /\ other' = IF category \in {"other", "breaking"} THEN Append(other, line) ELSE other

\* lines 186-197: the line is appended to the list of its category
AppendLine(category, line) ==
    /\ breaking' = IF category = "breaking" THEN Append(breaking, line) ELSE breaking
    /\ features' = IF category = "features" THEN Append(features, line) ELSE features
    /\ fixes' = IF category = "fixes" THEN Append(fixes, line) ELSE fixes
    /\ other' = IF category = "other" THEN Append(other, line) ELSE other

\* the exclusion check moved behind the breaking check
ProcessFieldsBreakingFirst(subject, body, sha) ==
    IF subject = <<>> \/ sha = <<>> THEN SkipRecord
    ELSE IF IsBreaking(ParseConventionalCommit(subject), body)
    THEN AppendLine("breaking", Line(subject, sha))
    ELSE IF IsExcluded(subject) THEN SkipRecord
    ELSE AppendLine(CategoryOf(ParseConventionalCommit(subject), body),
                    Line(subject, sha))

\* lines 177-197
ProcessFields(subject, body, sha) ==
    IF subject = <<>> \/ sha = <<>> THEN SkipRecord
    ELSE IF IsExcluded(subject) THEN SkipRecord
    ELSE AppendLine(CategoryOf(ParseConventionalCommit(subject), body),
                    Line(subject, sha))

\* a record of two fields is taken as a subject and a hash
ProcessPartsTwoFields(parts) ==
    IF Len(parts) < 2 THEN SkipRecord
    ELSE IF Len(parts) = 2 THEN ProcessFields(Strip(parts[1]), <<>>, Strip(parts[2]))
    ELSE ProcessFields(Strip(parts[1]), Strip(parts[2]), Strip(parts[3]))

\* lines 171-176
ProcessParts(parts) ==
    IF Len(parts) < 3 THEN SkipRecord
    ELSE ProcessFields(Strip(parts[1]), Strip(parts[2]), Strip(parts[3]))

\* lines 168-170
ProcessRecord(record) ==
    IF record = <<>> THEN SkipRecord
    ELSE ProcessParts(Split(record, NUL))

\* one iteration of the for loop
CategorizeRecord ==
    /\ cpc = "loop"
    /\ idx <= Len(records)
    /\ ProcessRecord(Strip(records[idx]))
    /\ idx' = idx + 1
    /\ UNCHANGED <<raw_log, cpc, records>>
    /\ UNCHANGED <<dvars, rvars>>

\* lines 199-204: the loop is over, the four lists are returned
CategorizeReturn ==
    /\ cpc = "loop"
    /\ idx > Len(records)
    /\ cpc' = "returned"
    /\ UNCHANGED <<raw_log, records, idx, breaking, features, fixes, other>>
    /\ UNCHANGED <<dvars, rvars>>

\* the dict _categorize_commits returns
Categories ==
    [breaking |-> breaking, features |-> features, fixes |-> fixes, other |-> other]

\* main, line 282 and lines 288-296: the clock is read for the release date
\* and the categories are rendered
Render(stage, source_tag, repo, prev_tag) ==
    /\ cpc = "returned"
    /\ cpc' = "rendered"
    /\ rargs' = Some([stage |-> stage, version |-> Version1,
                      source_tag |-> source_tag, repo |-> repo,
                      prev_tag |-> prev_tag, release_date |-> clock])
    /\ notes' = RenderMarkdown(stage, Version1, source_tag, repo, prev_tag,
                               Categories, clock)
    /\ UNCHANGED <<raw_log, records, idx, breaking, features, fixes, other, clock>>
    /\ UNCHANGED <<dvars, bvars, tvars>>

\* _render_markdown is called once more with the arguments of the first call
RenderAgain ==
    /\ cpc = "rendered"
    /\ cpc' = "rerendered"
    /\ notes' = RenderMarkdown(rargs[1].stage, rargs[1].version,
                               rargs[1].source_tag, rargs[1].repo,
                               rargs[1].prev_tag, Categories,
                               rargs[1].release_date)
    /\ UNCHANGED <<raw_log, records, idx, breaking, features, fixes, other>>
    /\ UNCHANGED <<rargs, clock>>
    /\ UNCHANGED <<dvars, bvars, tvars>>

\* the environment: the day changes
Tick ==
    /\ clock = Date1
    /\ clock' = Date2
    /\ UNCHANGED <<rargs, notes>>
    /\ UNCHANGED <<dvars, cvars, bvars, tvars>>

NextChangelog ==
    \/ \E r \in RecordUniverse : AddRecord(r)
    \/ CategorizeStart
    \/ CategorizeRecord
    \/ CategorizeReturn
    \/ \E stage \in Stages, source_tag \in SourceTags, repo \in Repos,
          prev_tag \in PrevTags : Render(stage, source_tag, repo, prev_tag)
    \/ RenderAgain
    \/ Tick

SpecChangelog == Init /\ [][NextChangelog]_vars

(***************************************************************************)
(* bump_version.py                                                         *)
(***************************************************************************)
\* open(path).read() in text mode: universal newlines, "\r\n" and a lone
\* "\r" are read as "\n"
RECURSIVE UniversalNewlines(_)
UniversalNewlines(content) ==
    IF content = <<>> THEN <<>>
    ELSE IF Head(content) = "\r"
    THEN <<"\n">> \o UniversalNewlines(
             IF Len(content) >= 2 /\ content[2] = "\n"
             THEN Drop(content, 3) ELSE Tail(content))
    ELSE <<Head(content)>> \o UniversalNewlines(Tail(content))

\* the fixed part of r'version = "[^"]+"' and of the replacement
VersionFieldStart == <<"v", "e", "r", "s", "i", "o", "n", " ", "=", " ", "\"">>

\* r'version = "[^"]+"' matched at position i: the position of the closing
\* quote, 0 when there is no match at i
VersionMatchEnd(s, i) ==
    IF ~StartsWithAt(s, i, VersionFieldStart) THEN 0
    ELSE LET from == i + Len(VersionFieldStart)
             quotes == {j \in from..Len(s) : s[j] = "\""}
         IN  IF quotes = {} THEN 0
             ELSE LET j == CHOOSE m \in quotes : \A k \in quotes : m <= k
                  IN  IF j = from THEN 0 ELSE j

\* re.sub(r'version = "[^"]+"', f'version = "{version}"', content, count=1):
\* the leftmost match is replaced, the rest of the text is kept
SubVersion(content, version) ==
    LET starts == {i \in 1..Len(content) : VersionMatchEnd(content, i) # 0}
    IN  IF starts = {} THEN content
        ELSE LET i == CHOOSE m \in starts : \A k \in starts : m <= k
             IN  SubSeq(content, 1, i - 1) \o VersionFieldStart \o version
                   \o <<"\"">> \o Drop(content, VersionMatchEnd(content, i) + 1)

\* yaml.safe_load: the mapping of the document, key order kept and comments
\* dropped; None for a document with no content
SafeLoad(doc) ==
    IF SelectSeq(doc, LAMBDA item : "key" \in DOMAIN item) = <<>> THEN None
    ELSE Some(SelectSeq(doc, LAMBDA item : "key" \in DOMAIN item))

\* catalog["version"] = version: a present key keeps its place, a new key
\* goes last
SetVersion(catalog, version) ==
    IF \E i \in 1..Len(catalog) : catalog[i].key = "version"
    THEN [i \in 1..Len(catalog) |->
            IF catalog[i].key = "version"
            THEN [key |-> "version", value |-> version] ELSE catalog[i]]
    ELSE Append(catalog, [key |-> "version", value |-> version])

\* the pyproject files of the model: none, two version fields, CRLF line
\* endings, no version field, another key ending in "version" first
PyprojectFiles ==
    {None,
     Some(VersionFieldStart \o <<"1", "\"", "\n">>
            \o VersionFieldStart \o <<"9", "\"", "\n">>),
     Some(<<"[", "p", "]", "\r", "\n">> \o VersionFieldStart
            \o <<"1", "\"", "\r", "\n">>),
     Some(<<"n", " ", "=", " ", "\"", "x", "\"", "\n">>),
     Some(<<"m", "_">> \o VersionFieldStart \o <<"3", "\"", "\n">>
            \o VersionFieldStart \o <<"1", "\"", "\n">>)}

\* the catalog files of the model: none, a document of comments only, a
\* mapping with a version key between other keys, a mapping without one
CatalogFiles ==
    {None,
     Some(<<[comment |-> "# catalog"]>>),
     Some(<<[key |-> "name", value |-> <<"n", "w">>],
            [comment |-> "# bumped by the release"],
            [key |-> "version", value |-> <<"1">>],
            [key |-> "agents", value |-> <<"1", "2">>]>>),
     Some(<<[key |-> "name", value |-> <<"n", "w">>],
            [key |-> "agents", value |-> <<"1", "2">>]>>)}

\* the environment and parse_args: the files are as they are and the run is
\* started with --version and with or without each path
BumpStart(pyfile, catfile, pyproject, catalog) ==
    /\ bpc = "env"
    /\ fs0' = [pyproject |-> pyfile, catalog |-> catfile]
    /\ fs' = [pyproject |-> pyfile, catalog |-> catfile]
    /\ bargs' = Some([version |-> Version1, pyproject |-> pyproject,
                      catalog |-> catalog])
    /\ IF ~pyproject /\ ~catalog
       THEN /\ berr' = <<"usage">>
            /\ bexit' = Some(2)
            /\ bpc' = "done"
       ELSE /\ bpc' = "pyproject"
            /\ UNCHANGED <<berr, bexit>>
    /\ UNCHANGED bout
    /\ UNCHANGED <<dvars, cvars, rargs, notes, clock, tvars>>

\* main, lines 88-90 and 96-98, with _bump_pyproject
BumpPyproject ==
    /\ bpc = "pyproject"
    /\ IF ~bargs[1].pyproject
       THEN /\ bpc' = "catalog"
            /\ UNCHANGED <<fs, bout, berr, bexit>>
       ELSE IF fs.pyproject = None
       THEN /\ berr' = Append(berr, "Error: pyproject.toml not found")
            /\ bexit' = Some(1)
            /\ bpc' = "done"
            /\ UNCHANGED <<fs, bout>>
       ELSE /\ fs' = [fs EXCEPT !.pyproject =
                        Some(SubVersion(UniversalNewlines(fs.pyproject[1]),
                                        bargs[1].version))]
            /\ bout' = Append(bout, "Bumped pyproject.toml")
            /\ bpc' = "catalog"
            /\ UNCHANGED <<berr, bexit>>
    /\ UNCHANGED <<fs0, bargs>>
    /\ UNCHANGED <<dvars, cvars, rargs, notes, clock, tvars>>

\* a catalog step that puts the pyproject file back when the catalog is
\* missing
BumpCatalogRollback ==
    /\ bpc = "catalog"
    /\ bpc' = "done"
    /\ IF ~bargs[1].catalog
       THEN /\ bexit' = Some(0)
            /\ UNCHANGED <<fs, bout, berr>>
       ELSE IF fs.catalog = None
       THEN /\ berr' = Append(berr, "Error: Catalog file not found")
            /\ bexit' = Some(1)
            /\ fs' = fs0
            /\ UNCHANGED bout
       ELSE IF SafeLoad(fs.catalog[1]) = None
       THEN /\ berr' = Append(berr, "traceback")
            /\ bexit' = Some(1)
            /\ UNCHANGED <<fs, bout>>
       ELSE /\ fs' = [fs EXCEPT !.catalog =
                        Some(SetVersion(SafeLoad(fs.catalog[1])[1],
                                        bargs[1].version))]
            /\ bout' = Append(bout, "Bumped catalog")
            /\ bexit' = Some(0)
            /\ UNCHANGED berr
    /\ UNCHANGED <<fs0, bargs>>
    /\ UNCHANGED <<dvars, cvars, rargs, notes, clock, tvars>>

\* main, lines 92-98, with _bump_catalog; a document that is no mapping ends
\* the run with the TypeError of the item assignment, which nothing catches
BumpCatalog ==
    /\ bpc = "catalog"
    /\ bpc' = "done"
    /\ IF ~bargs[1].catalog
       THEN /\ bexit' = Some(0)
            /\ UNCHANGED <<fs, bout, berr>>
       ELSE IF fs.catalog = None
       THEN /\ berr' = Append(berr, "Error: Catalog file not found")
            /\ bexit' = Some(1)
            /\ UNCHANGED <<fs, bout>>
       ELSE IF SafeLoad(fs.catalog[1]) = None
       THEN /\ berr' = Append(berr, "traceback")
            /\ bexit' = Some(1)
            /\ UNCHANGED <<fs, bout>>
       ELSE /\ fs' = [fs EXCEPT !.catalog =
                        Some(SetVersion(SafeLoad(fs.catalog[1])[1],
                                        bargs[1].version))]
            /\ bout' = Append(bout, "Bumped catalog")
            /\ bexit' = Some(0)
            /\ UNCHANGED berr
    /\ UNCHANGED <<fs0, bargs>>
    /\ UNCHANGED <<dvars, cvars, rargs, notes, clock, tvars>>

NextBump ==
    \/ \E pyfile \in PyprojectFiles, catfile \in CatalogFiles,
          pyproject \in BOOLEAN, catalog \in BOOLEAN :
          BumpStart(pyfile, catfile, pyproject, catalog)
    \/ BumpPyproject
    \/ BumpCatalog

SpecBump == Init /\ [][NextBump]_vars

(***************************************************************************)
(* read_toml_field.py                                                      *)
(***************************************************************************)
\* a TOML value: a table is [kind |-> "table", items |-> a function from
\* keys to values], any other value is [kind |-> "str" or "bool", text]
Table(entries) == [kind |-> "table", items |-> entries]

\* the walk of _resolve_key that treats a value that is no table as found
RECURSIVE ResolveStopAtValue(_, _)
ResolveStopAtValue(current, segments) ==
    IF segments = <<>> THEN Some(current)
    ELSE IF current.kind # "table" THEN Some(current)
    ELSE IF Head(segments) \notin DOMAIN current.items THEN None
    ELSE ResolveStopAtValue(current.items[Head(segments)], Tail(segments))

\* the for loop of _resolve_key, lines 65-71: None when current is no dict
\* or has no such key (TOML has no null value)
RECURSIVE Resolve(_, _)
Resolve(current, segments) ==
    IF segments = <<>> THEN Some(current)
    ELSE IF current.kind # "table" THEN None
    ELSE IF Head(segments) \notin DOMAIN current.items THEN None
    ELSE Resolve(current.items[Head(segments)], Tail(segments))

\* _resolve_key(data, dotted_key)
ResolveKey(data, dotted_key) == Resolve(data, Split(dotted_key, "."))

\* what is at --file: nothing, a text that is no TOML, or a document with
\* nested tables, a false value and an empty-string value
TomlFiles ==
    {None,
     Some([kind |-> "invalid"]),
     Some(Table(
        (<<"project">> :> Table(
            (<<"version">> :> [kind |-> "str", text |-> "1.2"])
              @@ (<<"x">> :> [kind |-> "bool", text |-> "False"])))
          @@ (<<"version">> :> [kind |-> "str", text |-> ""])))}

\* the segments keys are made of, the empty one included
Segments == {<<"project">>, <<"version">>, <<"x">>, <<>>}

\* the most segments a key has
MaxSegments == 3

\* the values of --key: dotted paths of up to MaxSegments segments
TomlKeys ==
    {Join(p, ".") : p \in UNION {[1..n -> Segments] : n \in 1..MaxSegments}}

\* main, lines 76-82: parse_args and _read_toml; a text that is no TOML ends
\* the run with tomllib's decode error, which nothing catches
TomlStart(file, key) ==
    /\ tpc = "env"
    /\ targs' = Some([file |-> file, key |-> key])
    /\ IF file = None
       THEN /\ terr' = <<"Error: File not found">>
            /\ texit' = Some(1)
            /\ tpc' = "done"
       ELSE IF file[1].kind = "invalid"
       THEN /\ terr' = <<"traceback">>
            /\ texit' = Some(1)
            /\ tpc' = "done"
       ELSE /\ tpc' = "resolve"
            /\ UNCHANGED <<terr, texit>>
    /\ UNCHANGED tout
    /\ UNCHANGED <<dvars, cvars, rargs, notes, clock, bvars>>

\* main, lines 84-89
TomlResolve ==
    /\ tpc = "resolve"
    /\ tpc' = "done"
    /\ IF ResolveKey(targs[1].file[1], targs[1].key) = None
       THEN /\ terr' = <<"Error: key not found">>
            /\ texit' = Some(1)
            /\ UNCHANGED tout
       ELSE /\ tout' = <<ResolveKey(targs[1].file[1], targs[1].key)[1]>>
            /\ texit' = Some(0)
            /\ UNCHANGED terr
    /\ UNCHANGED targs
    /\ UNCHANGED <<dvars, cvars, rargs, notes, clock, bvars>>

NextToml ==
    \/ \E file \in TomlFiles, key \in TomlKeys : TomlStart(file, key)
    \/ TomlResolve

SpecToml == Init /\ [][NextToml]_vars

(***************************************************************************)
(* Properties of discover_tag.py                                           *)
(***************************************************************************)
Finished == pc = "done"

Reported == pc \in {"done", "returned"} /\ Len(stdout) = 1

Payload == stdout[1]

PatternOk == argv[1].pattern # None /\ argv[1].pattern[1] \in {PatDev, PatRc}

\* discover ran, from main or called directly, and printed its result
Discovered == Reported /\ PatternOk /\ argv[1].validate = None

\* the run went through validate and printed its result
Validated == Reported /\ PatternOk /\ argv[1].validate # None

StagePred(pattern, version) ==
    IF pattern = PatDev THEN version.dev # None
    ELSE version.pre # None /\ version.pre[1].l = "rc"

\* the positions of the tags that parse and satisfy the stage predicate
CandidatesOf(tagList, pattern) ==
    {i \in 1..Len(tagList) :
        /\ ParseTag(tagList[i]) # None
        /\ StagePred(pattern, ParseTag(tagList[i])[1])}

Candidates == CandidatesOf(tags, argv[1].pattern[1])

VersionAt(i) == ParseTag(tags[i])[1]

\* (major, minor, patch) compared component by component as integers
TripleLeq(a, b) ==
    \/ a[1] < b[1]
    \/ a[1] = b[1] /\ a[2] < b[2]
    \/ a[1] = b[1] /\ a[2] = b[2] /\ a[3] <= b[3]

\* the stage's number of a version, and whether it carries only that suffix
StageNumber(pattern, version) ==
    IF pattern = PatDev THEN version.dev[1] ELSE version.pre[1].n

PlainOfStage(pattern, version) ==
    IF pattern = PatDev THEN version.pre = None ELSE version.dev = None

TagSet == {tags[i] : i \in 1..Len(tags)}

C2_ReportedTagIsSupplied ==
    (Discovered /\ Payload.found) => Payload.tag \in TagSet

RemoveUnparseable(tagList) ==
    SelectSeq(tagList, LAMBDA t : ParseTag(t) # None)

\* C3: discover gives the same found flag, tag, version and exit code as it
\* gives on the collection with every unparseable string removed, and the
\* run ends with a found / not-found payload, never an error or a crash
C3_InvalidTagsIgnored ==
    Discovered =>
        LET clean == DiscoverOutcome(RemoveUnparseable(tags), argv[1].pattern[1], None)
        IN  /\ "found" \in DOMAIN Payload
            /\ Payload.found = clean.payload.found
            /\ Payload.tag = clean.payload.tag
            /\ Payload.version = clean.payload.version
            /\ exitCode = Some(clean.code)
            /\ exitCode \in {Some(0), Some(1)}
            /\ stderr = <<>>

\* C3 witness: an unparseable tag preceded a dev tag, which was found
C3_Witness ==
    /\ Discovered
    /\ argv[1].pattern[1] = PatDev
    /\ tags = <<TagInput.not_a_version, TagInput.dev1>>
    /\ Payload.found
    /\ Payload.tag = TagInput.dev1

\* C4: with no tag that parses and satisfies the stage predicate, discover
\* reports not-found: found = false, tag and version null, exit code 1, and
\* the Stage 1 / dev guidance for dev, the Stage 2 / rc guidance for rc
C4_NotFoundGuidance ==
    (Discovered /\ Candidates = {}) =>
        /\ Payload.found = FALSE
        /\ Payload.tag = None
        /\ Payload.version = None
        /\ exitCode = Some(1)
        /\ argv[1].pattern[1] = PatDev =>
              Payload.error.text = "No dev tags found. Run Stage 1 (Dev Release) first."
        /\ argv[1].pattern[1] = PatRc =>
              Payload.error.text = "No rc tags found. Run Stage 2 (RC Release) first."

\* C4 witness: an all-blank tag list under pattern dev ended not-found
C4_Witness ==
    /\ Discovered
    /\ argv[1].pattern[1] = PatDev
    /\ argv[1].tag_list = Some(<<TagInput.blank, TagInput.blank>>)
    /\ tags = <<>>
    /\ Payload.found = FALSE

\* C5: validate succeeds iff the target is in the tag list verbatim and
\* parses; then it reports the target itself and the parse of the target,
\* whatever else the list holds; otherwise found = false, tag null, exit 1
C5_ValidateMembershipAndParse ==
    Validated =>
        LET target == argv[1].validate[1]
        IN  IF target \in TagSet /\ ParseTag(target) # None
            THEN /\ Payload.found
                 /\ Payload.tag = target
                 /\ Payload.version = VersionStr(ParseTag(target)[1])
                 /\ target = TagInput.vv_dev1 => Payload.version = Tail(TagInput.dev1)
                 /\ target = TagInput.old_dev2 => Payload.version = Tail(TagInput.old_dev2)
                 /\ exitCode = Some(0)
            ELSE /\ Payload.found = FALSE
                 /\ Payload.tag = None
                 /\ exitCode = Some(1)

\* C5 witness: the target was validated although a higher dev tag came first
C5_Witness ==
    /\ Validated
    /\ tags = <<TagInput.dev1, TagInput.old_dev2>>
    /\ argv[1].validate = Some(TagInput.old_dev2)
    /\ Payload.found
    /\ Payload.tag = TagInput.old_dev2

RevListCalled == \E i \in 1..Len(gitCalls) : gitCalls[i].cmd = "rev-list --count"

\* C6: with --tag-list given, a successful result has commits_behind = null
\* and exit code 0 and no git subprocess was run; git rev-list is run only
\* on the discover path with the tags taken from git
C6_NoStalenessWithTagList ==
    /\ (Finished /\ argv[1].tag_list # None) =>
          /\ gitCalls = <<>>
          /\ (Reported /\ "found" \in DOMAIN Payload /\ Payload.found) =>
                Payload.commits_behind = None /\ exitCode = Some(0)
    /\ RevListCalled =>
          argv[1].tag_list = None /\ argv[1].validate = None

\* C6 witness: a tag was found from an explicit tag list, commits_behind null
C6_Witness ==
    /\ Discovered
    /\ argv[1].tag_list = Some(<<TagInput.dev1>>)
    /\ Payload.found
    /\ Payload.commits_behind = None

\* C7: discover called with a pattern outside {dev, rc} rejects it: it does
\* not end as it ends for rc on the same tags, with the rc tag found or the
\* rc guidance (as the specification states it; the code falls back to rc)
C7_NoSilentDefaultStage ==
    (pc = "returned" /\ argv[1].pattern[1] \notin {PatDev, PatRc}) =>
        /\ stdout[1] # DiscoverOutcome(tags, PatRc, None).payload
        /\ exitCode # Some(DiscoverOutcome(tags, PatRc, None).code)

\* C8: every finished run printed exactly one payload; exit 0 iff it has
\* found = true, exit 1 iff found = false, exit 2 iff the pattern is neither
\* dev nor rc, and then nothing was read (as the specification states it; the code also
\* ends without a payload)
C8_OnePayloadAndExitCode ==
    Finished =>
        /\ Len(stdout) = 1
        /\ exitCode = Some(0) <=> ("found" \in DOMAIN Payload /\ Payload.found)
        /\ exitCode = Some(1) <=> ("found" \in DOMAIN Payload /\ ~Payload.found)
        /\ exitCode = Some(2) <=> ~PatternOk
        /\ ~PatternOk => tags = <<>> /\ gitCalls = <<>>

\* C9: every result has the fields tag, version and found, and an error
\* exactly when it is not a found result (as the specification states it; the code's
\* invalid-request payload has the error field alone)
C9_ResultFields ==
    Reported =>
        /\ {"tag", "version", "found"} \subseteq DOMAIN Payload
        /\ Payload.found \in BOOLEAN
        /\ Payload.found => Payload.tag # None /\ Payload.version # None
                            /\ "error" \notin DOMAIN Payload
        /\ ~Payload.found => Payload.tag = None /\ Payload.version = None
                             /\ "error" \in DOMAIN Payload

(***************************************************************************)
(* Properties of generate_changelog.py                                     *)
(***************************************************************************)
ListLines(list) == {list[i] : i \in 1..Len(list)}

AllLines ==
    ListLines(breaking) \cup ListLines(features)
        \cup ListLines(fixes) \cup ListLines(other)

\* the fields of the k-th record of the split log, trimmed as the loop does
FieldsOf(k) == Split(Strip(records[k]), NUL)

MarkedSubject(k) ==
    /\ Len(FieldsOf(k)) >= 3
    /\ \/ Contains(Strip(FieldsOf(k)[1]), ChoreReleaseMarker)
       \/ Contains(Strip(FieldsOf(k)[1]), SkipCiMarker)

\* C10: a commit whose subject contains "chore(release):" or "[skip ci]" is
\* in none of the four lists, also when its subject has "!" or its body has
\* "BREAKING CHANGE:": no entry of any list carries a marker, and the entry
\* of no processed record with a marked subject is in any list
C10_ExcludedInNoList ==
    /\ \A line \in AllLines :
          /\ ~Contains(line, ChoreReleaseMarker)
          /\ ~Contains(line, SkipCiMarker)
    /\ cpc # "env" =>
          \A k \in 1..(idx - 1) :
              MarkedSubject(k) =>
                  Line(Strip(FieldsOf(k)[1]), Strip(FieldsOf(k)[3])) \notin AllLines

\* C10 witness: a [skip ci] commit with a BREAKING CHANGE body and then a
\* feat commit were categorized; only the feat commit is listed
C10_Witness ==
    /\ cpc = "returned"
    /\ raw_log = RecordInput.skip_ci_breaking_body \o <<EOR, "\n">> \o RecordInput.feat \o <<EOR>>
    /\ breaking = <<>>
    /\ features = <<Line(<<"f", "e", "a", "t", ":", " ", "x">>, <<"a", "1">>)>>
    /\ fixes = <<>>
    /\ other = <<>>

\* the records the loop has been through
Processed == IF cpc = "env" THEN {} ELSE 1..(idx - 1)

SubjectOf(k) == Strip(FieldsOf(k)[1])

BodyOf(k) == Strip(FieldsOf(k)[2])

ShaOf(k) == Strip(FieldsOf(k)[3])

LineOf(k) == Line(SubjectOf(k), ShaOf(k))

\* the record is a commit with a subject and a hash and no exclusion marker
Kept(k) ==
    /\ Len(FieldsOf(k)) >= 3
    /\ SubjectOf(k) # <<>>
    /\ ShaOf(k) # <<>>
    /\ ~MarkedSubject(k)

\* the subject matches the grammar and has the "!" marker
HasBang(k) ==
    /\ ParseConventionalCommit(SubjectOf(k)) # None
    /\ ParseConventionalCommit(SubjectOf(k))[1].bang

HasBreakingBody(k) == Contains(BodyOf(k), BreakingChangeMarker)

OnlyIn(line, list, rest1, rest2, rest3) ==
    /\ line \in ListLines(list)
    /\ line \notin ListLines(rest1) \cup ListLines(rest2) \cup ListLines(rest3)

LogHas(r) == \E k \in Processed : Strip(records[k]) = r

\* C11: a non-excluded commit whose subject matches the grammar and that has
\* "!" or a body containing "BREAKING CHANGE:" is in breaking and in no
\* other list whatever its type: "feat!: x" is in breaking and not in features,
\* "fix: y" with a BREAKING CHANGE body is in breaking and not in fixes
C11_BreakingWinsOverType ==
    /\ \A k \in Processed :
          ( /\ Kept(k)
            /\ ParseConventionalCommit(SubjectOf(k)) # None
            /\ HasBang(k) \/ HasBreakingBody(k) ) =>
              OnlyIn(LineOf(k), breaking, features, fixes, other)
    /\ LogHas(RecordInput.feat_bang) =>
          OnlyIn(Line(<<"f", "e", "a", "t", "!", ":", " ", "x">>, <<"a", "2">>),
                 breaking, features, fixes, other)
    /\ LogHas(RecordInput.fix_breaking_body) =>
          OnlyIn(Line(<<"f", "i", "x", ":", " ", "y">>, <<"a", "3">>),
                 breaking, features, fixes, other)

\* C11 witness: "feat!: x" and "fix: y" with a BREAKING CHANGE body were
\* categorized, both into breaking
C11_Witness ==
    /\ cpc = "returned"
    /\ raw_log = RecordInput.feat_bang \o <<EOR, "\n">> \o RecordInput.fix_breaking_body \o <<EOR>>
    /\ Len(breaking) = 2
    /\ features = <<>>
    /\ fixes = <<>>

\* C12: a non-excluded commit whose subject does not match the grammar is in
\* other and in no other list, also when its body contains
\* "BREAKING CHANGE:" (as the specification states it; the code puts it in
\* breaking when the body has the marker)
C12_BreakingNeedsGrammarMatch ==
    \A k \in Processed :
        (Kept(k) /\ ParseConventionalCommit(SubjectOf(k)) = None) =>
            OnlyIn(LineOf(k), other, breaking, features, fixes)

KeptProcessed == {k \in Processed : Kept(k)}

Count(line, list) == Cardinality({i \in 1..Len(list) : list[i] = line})

CountAll(line) ==
    Count(line, breaking) + Count(line, features)
        + Count(line, fixes) + Count(line, other)

ListsWith(line) ==
    {name \in {"breaking", "features", "fixes", "other"} :
        line \in ListLines(CASE name = "breaking" -> breaking
                             [] name = "features" -> features
                             [] name = "fixes" -> fixes
                             [] OTHER -> other)}

\* C13: after any processed prefix of the log, each non-excluded record with
\* a subject and a hash has its entry in exactly one of the four lists, as
\* many times as the record occurs; the lists hold nothing else, and their
\* lengths add up to the number of such records
C13_ExactlyOneCategory ==
    /\ Len(breaking) + Len(features) + Len(fixes) + Len(other)
          = Cardinality(KeptProcessed)
    /\ \A k \in KeptProcessed :
          /\ Cardinality(ListsWith(LineOf(k))) = 1
          /\ CountAll(LineOf(k))
                = Cardinality({j \in KeptProcessed : LineOf(j) = LineOf(k)})
    /\ \A line \in AllLines : \E k \in KeptProcessed : LineOf(k) = line

\* C13 witness: a breaking fix and a feat were categorized, one entry each
C13_Witness ==
    /\ cpc = "returned"
    /\ raw_log = RecordInput.fix_breaking_body \o <<EOR, "\n">> \o RecordInput.feat \o <<EOR>>
    /\ Len(breaking) = 1
    /\ Len(features) = 1
    /\ fixes = <<>>
    /\ other = <<>>

TypeOf(k) == ParseConventionalCommit(SubjectOf(k))[1].type

NotBreaking(k) == ~HasBang(k) /\ ~HasBreakingBody(k)

\* C14: a non-excluded, non-breaking commit is in features (only) iff its
\* type is exactly "feat", in fixes (only) iff its type is exactly "fix",
\* and in other (only) for every other matched type and for a subject that
\* does not match the grammar: "docs", "feature" and "fixes" give other
C14_TypeDecidesCategory ==
    /\ \A k \in Processed :
          (Kept(k) /\ NotBreaking(k)) =>
              IF ParseConventionalCommit(SubjectOf(k)) = None
              THEN OnlyIn(LineOf(k), other, breaking, features, fixes)
              ELSE IF TypeOf(k) = <<"f", "e", "a", "t">>
              THEN OnlyIn(LineOf(k), features, breaking, fixes, other)
              ELSE IF TypeOf(k) = <<"f", "i", "x">>
              THEN OnlyIn(LineOf(k), fixes, breaking, features, other)
              ELSE OnlyIn(LineOf(k), other, breaking, features, fixes)
    /\ LogHas(RecordInput.feature) =>
          OnlyIn(Line(<<"f", "e", "a", "t", "u", "r", "e", ":", " ", "x">>,
                      <<"a", "6">>), other, breaking, features, fixes)
    /\ LogHas(RecordInput.fixes) =>
          OnlyIn(Line(<<"f", "i", "x", "e", "s", ":", " ", "y">>, <<"a", "9">>),
                 other, breaking, features, fixes)
    /\ LogHas(RecordInput.fix_scope) =>
          OnlyIn(Line(<<"f", "i", "x", "(", "c", "o", "r", "e", ")", ":", " ", "y">>,
                      <<"a", "4">>), fixes, breaking, features, other)
    /\ LogHas(RecordInput.plain) =>
          OnlyIn(Line(<<"u", "p", "d", "a", "t", "e">>, <<"a", "7">>),
                 other, breaking, features, fixes)

\* C14 witness: "feature: x" and "fix(core): y" were categorized, the first
\* into other and the second into fixes
C14_Witness ==
    /\ cpc = "returned"
    /\ raw_log = RecordInput.feature \o <<EOR, "\n">> \o RecordInput.fix_scope \o <<EOR>>
    /\ Len(other) = 1
    /\ Len(fixes) = 1
    /\ features = <<>>
    /\ breaking = <<>>

\* the lines of the kept records among the first n, in log order
RECURSIVE KeptLines(_)
KeptLines(n) ==
    IF n = 0 THEN <<>>
    ELSE KeptLines(n - 1) \o (IF Kept(n) THEN <<LineOf(n)>> ELSE <<>>)

ProcessedCount == IF cpc = "env" THEN 0 ELSE idx - 1

\* the subsequence of the processed prefix made of the lines found in list
PrefixPart(list) ==
    SelectSeq(KeptLines(ProcessedCount), LAMBDA line : line \in ListLines(list))

Rendered == cpc = "rendered"

\* the lines of the rendered text, and those that are entries ("- ...")
NoteLines == Split(notes, "\n")

EntryLines == SelectSeq(NoteLines, LAMBDA l : l # <<>> /\ l[1] = "-")

\* C15: after every processed prefix of the log each list is the
\* subsequence of the prefix's lines that it holds, in log order and with
\* repetitions kept; the entry lines of the rendered text are the four
\* lists one after the other, each in its own order
C15_OrderPreserved ==
    /\ breaking = PrefixPart(breaking)
    /\ features = PrefixPart(features)
    /\ fixes = PrefixPart(fixes)
    /\ other = PrefixPart(other)
    /\ Rendered => EntryLines = breaking \o features \o fixes \o other

\* C15 witness: "docs: z" then "update" were categorized and rendered, in
\* that order in other
C15_Witness ==
    /\ Rendered
    /\ raw_log = RecordInput.docs \o <<EOR, "\n">> \o RecordInput.plain \o <<EOR>>
    /\ other = <<Line(<<"d", "o", "c", "s", ":", " ", "z">>, <<"a", "5">>),
                 Line(<<"u", "p", "d", "a", "t", "e">>, <<"a", "7">>)>>
    /\ EntryLines = other

\* where a literal piece of a template stands in the rendered text
Positions(token) == {i \in 1..Len(notes) : notes[i] = token}

Present(token) == Positions(token) # {}

Before(tokenA, tokenB) ==
    \A i \in Positions(tokenA), j \in Positions(tokenB) : i < j

FramingTokens ==
    {"**Dev snapshot** ", "**Release candidate** ", "# nWave Framework v",
     "**Release Date**: ", "**Promoted from**: ", "**Changes since**: ",
     "**Full Changelog**: ", "## Install", "## Installation"}

SectionTokens ==
    <<"## Breaking Changes", "## Features", "## Bug Fixes", "## Other Changes">>

SectionLists == <<breaking, features, fixes, other>>

\* the heading is a line of its own, then a blank line, then the entries of
\* its list, then a blank line or the end
SectionFollows(n) ==
    \E i \in 1..Len(NoteLines) :
        /\ NoteLines[i] = <<SectionTokens[n]>>
        /\ i + 1 + Len(SectionLists[n]) <= Len(NoteLines)
        /\ NoteLines[i + 1] = <<>>
        /\ \A e \in 1..Len(SectionLists[n]) :
              NoteLines[i + 1 + e] = SectionLists[n][e]

\* C16: in the rendered text of every stage a section heading is present
\* (once, followed by the entries of its list) iff its list is not empty,
\* the headings present stand in the order Breaking Changes, Features, Bug
\* Fixes, Other Changes, and all of them come after every piece of the
\* stage framing (header, links, install block)
C16_SectionOrder ==
    Rendered =>
        /\ \A n \in 1..4 :
              /\ Present(SectionTokens[n]) <=> SectionLists[n] # <<>>
              /\ Cardinality(Positions(SectionTokens[n])) <= 1
              /\ SectionLists[n] # <<>> => SectionFollows(n)
        /\ \A m, n \in 1..4 :
              m < n => Before(SectionTokens[m], SectionTokens[n])
        /\ \A f \in FramingTokens, n \in 1..4 : Before(f, SectionTokens[n])

\* C16 witness: stable notes with a breaking and a feature section, the
\* breaking heading first
C16_Witness ==
    /\ Rendered
    /\ rargs[1].stage = StageStable
    /\ raw_log = RecordInput.feat \o <<EOR, "\n">> \o RecordInput.feat_bang \o <<EOR>>
    /\ Present("## Breaking Changes")
    /\ Present("## Features")
    /\ Before("## Installation", "## Breaking Changes")
    /\ Before("## Breaking Changes", "## Features")

NothingListed ==
    breaking = <<>> /\ features = <<>> /\ fixes = <<>> /\ other = <<>>

\* the text ends with the block <<token, newline>>, a block of its own
EndsWithBlock(token) ==
    /\ Len(notes) >= 3
    /\ notes[Len(notes) - 2] = "\n"
    /\ notes[Len(notes) - 1] = token
    /\ notes[Len(notes)] = "\n"

\* the log holds commits, all of them with an exclusion marker
OnlyExcludedCommits ==
    /\ \E k \in Processed : MarkedSubject(k)
    /\ \A k \in Processed : Strip(records[k]) # <<>> => MarkedSubject(k)

\* C17: the rendered text has the empty-state text iff all four lists are
\* empty, and then as its last block: "No notable changes (internal
\* improvements)" for dev and rc, "Patch release (internal improvements)"
\* for stable; a log of excluded commits only gives the empty-state text
C17_EmptyState ==
    Rendered =>
        /\ ( \/ Present("No notable changes (internal improvements)")
             \/ Present("Patch release (internal improvements)") )
           <=> NothingListed
        /\ (NothingListed /\ rargs[1].stage \in {StageDev, StageRc}) =>
              /\ EndsWithBlock("No notable changes (internal improvements)")
              /\ ~Present("Patch release (internal improvements)")
        /\ (NothingListed /\ rargs[1].stage = StageStable) =>
              /\ EndsWithBlock("Patch release (internal improvements)")
              /\ ~Present("No notable changes (internal improvements)")
        /\ OnlyExcludedCommits =>
              \/ Present("No notable changes (internal improvements)")
              \/ Present("Patch release (internal improvements)")

\* C17 witness: stable notes for a log of two excluded commits end with the
\* patch-release text
C17_Witness ==
    /\ Rendered
    /\ rargs[1].stage = StageStable
    /\ raw_log = RecordInput.release \o <<EOR, "\n">> \o RecordInput.skip_ci_breaking_body \o <<EOR>>
    /\ EndsWithBlock("Patch release (internal improvements)")

\* the lines of the rendered text that are a pipx command
CommandLineIndexes ==
    {i \in 1..Len(NoteLines) :
        /\ NoteLines[i] # <<>>
        /\ NoteLines[i][1] \in {"pipx install nwave-ai==", "pipx install nwave-ai"}}

\* an install block: its heading, a fenced bash block, one command line
InstallBlockAt(i, heading, command) ==
    /\ i >= 3 /\ i + 1 <= Len(NoteLines)
    /\ NoteLines[i - 2] = <<heading>>
    /\ NoteLines[i - 1] = CodeFence \o <<"bash">>
    /\ NoteLines[i] = command
    /\ NoteLines[i + 1] = CodeFence

InstallHeadings == Positions("## Install") \cup Positions("## Installation")

\* C18: dev notes have no install block; rc notes have exactly one, whose
\* command is the pipx install of the version with --pip-args="--pre";
\* stable notes have exactly one, whose command is the plain pipx install
\* with no pre-release flag
C18_InstallBlock ==
    Rendered =>
        /\ rargs[1].stage = StageDev =>
              /\ InstallHeadings = {}
              /\ CommandLineIndexes = {}
              /\ ~Present("\"--pre\"")
        /\ rargs[1].stage = StageRc =>
              /\ Cardinality(InstallHeadings) = 1
              /\ Cardinality(CommandLineIndexes) = 1
              /\ \A i \in CommandLineIndexes :
                    InstallBlockAt(i, "## Install",
                        <<"pipx install nwave-ai==">> \o rargs[1].version
                            \o <<" --pip-args=", "\"--pre\"">>)
        /\ rargs[1].stage = StageStable =>
              /\ Cardinality(InstallHeadings) = 1
              /\ Cardinality(CommandLineIndexes) = 1
              /\ \A i \in CommandLineIndexes :
                    InstallBlockAt(i, "## Installation", <<"pipx install nwave-ai">>)
              /\ ~Present("\"--pre\"")
              /\ ~Present(" --pip-args=")

\* C18 witness: rc notes with their install block and the --pre flag
C18_Witness ==
    /\ Rendered
    /\ rargs[1].stage = StageRc
    /\ Present("## Install")
    /\ Present("\"--pre\"")
    /\ features # <<>>

NoteLineSet == {NoteLines[i] : i \in 1..Len(NoteLines)}

\* the comparison from the previous tag to v<version> in the repository
ExpectedTarget ==
    <<"(", "https://github.com/">> \o rargs[1].repo \o <<"/compare/">>
        \o rargs[1].prev_tag \o <<"...v">> \o rargs[1].version \o <<")">>

LinkPresent ==
    \/ Present("**Changes since**: ")
    \/ Present("**Full Changelog**: ")
    \/ Present("https://github.com/")

\* C19: in every stage the compare link is rendered iff the previous tag and
\* the repository are both non-empty; it is labelled "Changes since" for dev
\* and rc and "Full Changelog" for stable, once, and its target is the
\* comparison from the previous tag to v<version>
C19_CompareLink ==
    Rendered =>
        /\ LinkPresent <=> (rargs[1].prev_tag # <<>> /\ rargs[1].repo # <<>>)
        /\ (LinkPresent /\ rargs[1].stage \in {StageDev, StageRc}) =>
              /\ (<<"**Changes since**: ", "[">> \o rargs[1].prev_tag \o <<"]">>
                    \o ExpectedTarget) \in NoteLineSet
              /\ Cardinality(Positions("**Changes since**: ")) = 1
              /\ ~Present("**Full Changelog**: ")
        /\ (LinkPresent /\ rargs[1].stage = StageStable) =>
              /\ (<<"**Full Changelog**: ", "[">> \o rargs[1].prev_tag
                    \o <<"...v">> \o rargs[1].version \o <<"]">>
                    \o ExpectedTarget) \in NoteLineSet
              /\ Cardinality(Positions("**Full Changelog**: ")) = 1
              /\ ~Present("**Changes since**: ")

\* C19 witness: stable notes with a previous tag and a repository carry the
\* Full Changelog link
C19_Witness ==
    /\ Rendered
    /\ rargs[1].stage = StageStable
    /\ rargs[1].prev_tag # <<>>
    /\ rargs[1].repo # <<>>
    /\ Present("**Full Changelog**: ")

PromotedPresent == Present("**Promoted from**: ")

\* the promoted line as it is rendered for the supplied source tag
PromotedLine ==
    <<"**Promoted from**: ", Backquote>> \o rargs[1].source_tag \o <<Backquote>>

HeaderTokens ==
    {"**Dev snapshot** ", "**Release candidate** ", "# nWave Framework v",
     "**Release Date**: "}

AfterPromotedTokens ==
    {"**Changes since**: ", "**Full Changelog**: ", "## Install",
     "## Installation"}

\* C20: the "Promoted from" line is rendered iff the stage is rc or stable and
\* the source tag is non-empty, so dev notes never carry it; when rendered it
\* names the source tag, occurs once, and stands after the header lines and
\* before the compare link and the install block
C20_PromotedFrom ==
    Rendered =>
        /\ PromotedPresent <=>
              (rargs[1].stage \in {StageRc, StageStable} /\ rargs[1].source_tag # <<>>)
        /\ rargs[1].stage = StageDev => ~PromotedPresent
        /\ PromotedPresent =>
              /\ PromotedLine \in NoteLineSet
              /\ Cardinality(Positions("**Promoted from**: ")) = 1
              /\ \E h \in HeaderTokens : Present(h)
              /\ \A h \in HeaderTokens : Before(h, "**Promoted from**: ")
              /\ \E a \in AfterPromotedTokens : Present(a)
              /\ \A a \in AfterPromotedTokens : Before("**Promoted from**: ", a)

\* C20 witness: rc notes rendered with a source tag, a previous tag and a
\* repository carry the promoted line between the header and the link
C20_Witness ==
    /\ Rendered
    /\ rargs[1].stage = StageRc
    /\ rargs[1].source_tag # <<>>
    /\ PromotedPresent
    /\ Present("**Changes since**: ")
    /\ Present("## Install")


Rerendered == cpc = "rerendered"

\* the line of the notes that carries the release date, for the date given
DateLine(release_date) ==
    CASE rargs[1].stage = StageDev ->
           <<"**Dev snapshot** ", Backquote>> \o rargs[1].version
               \o <<Backquote, " (">> \o release_date \o <<")">>
      [] rargs[1].stage = StageRc ->
           <<"**Release candidate** ", Backquote>> \o rargs[1].version
               \o <<Backquote, " (">> \o release_date \o <<")">>
      [] OTHER -> <<"**Release Date**: ">> \o release_date

\* C21: rendering is a function of its seven inputs: a second call with the
\* arguments and categories of the first returns the same text whatever the
\* clock shows by then, and the date in the text is the release date the
\* caller passed, not the clock's
C21_RenderIsPure ==
    /\ [][(cpc = "rendered" /\ cpc' = "rerendered") => notes' = notes]_vars
    /\ []((Rendered \/ Rerendered) =>
            /\ DateLine(rargs[1].release_date) \in NoteLineSet
            /\ \A d \in {Date1, Date2} \ {rargs[1].release_date} :
                  DateLine(d) \notin NoteLineSet)

\* C21 witness: the second call has returned after the day changed
C21_Witness ==
    /\ Rerendered
    /\ clock # rargs[1].release_date
    /\ features # <<>>


(***************************************************************************)
(* Properties of discover_tag.py: parsing and stage scoping                *)
(***************************************************************************)
\* the raw tag starts with two or more "v" characters
DoubleV(tag) == Len(tag) >= 2 /\ tag[1] = "v" /\ tag[2] = "v"

\* C22: a tag with two or more leading "v" characters is invalid: validate
\* rejects it as a target, and discover gives the result it gives on the tag
\* list without such tags
C22_DoubleVIsInvalid ==
    /\ (Validated /\ DoubleV(argv[1].validate[1])) => Payload.found = FALSE
    /\ Discovered =>
          LET rest == DiscoverOutcome(SelectSeq(tags, LAMBDA t : ~DoubleV(t)),
                                     argv[1].pattern[1], None)
          IN  /\ Payload.found = rest.payload.found
              /\ Payload.tag = rest.payload.tag
              /\ exitCode = Some(rest.code)


\* the tag parses and its pre-release label is alpha or beta
IsAlphaBeta(tag) ==
    /\ ParseTag(tag) # None
    /\ ParseTag(tag)[1].pre # None
    /\ ParseTag(tag)[1].pre[1].l \in {"a", "b"}

\* C23: rc discovery never selects a tag whose pre-release label is alpha or
\* beta: the result is that of the tag list without such tags, a reported
\* version is that of a supplied tag with an rc label, and a list with only
\* alpha or beta tags ends not-found
C23_RcOnlyForKindRc ==
    (Discovered /\ argv[1].pattern[1] = PatRc) =>
        LET rest == DiscoverOutcome(SelectSeq(tags, LAMBDA t : ~IsAlphaBeta(t)),
                                   PatRc, None)
        IN  /\ Payload.found = rest.payload.found
            /\ Payload.tag = rest.payload.tag
            /\ Payload.version = rest.payload.version
            /\ exitCode = Some(rest.code)
            /\ Payload.found =>
                  \E i \in 1..Len(tags) :
                      /\ ParseTag(tags[i]) # None
                      /\ VersionAt(i).pre # None
                      /\ VersionAt(i).pre[1].l = "rc"
                      /\ VersionStr(VersionAt(i)) = Payload.version
            /\ (tags # <<>> /\ \A i \in 1..Len(tags) : IsAlphaBeta(tags[i])) =>
                  /\ Payload.found = FALSE
                  /\ exitCode = Some(1)

\* C23 witness: a beta tag of a higher version stood beside an rc tag and the
\* rc tag was reported
C23_Witness ==
    /\ Discovered
    /\ argv[1].pattern[1] = PatRc
    /\ tags = <<TagInput.rc9, TagInput.beta>>
    /\ Payload.found
    /\ Payload.tag = TagInput.rc9


\* the tags _filter_by_pattern keeps for a stage
KeptTags(tagList, pattern) ==
    {FilterByPattern(tagList, pattern)[i].tag :
        i \in 1..Len(FilterByPattern(tagList, pattern))}

\* C24: over the tag list of any run the candidates for stage dev and the
\* candidates for stage rc are disjoint: no tag is both a dev and an rc tag
C24_StagesDisjoint ==
    (Reported /\ PatternOk) =>
        KeptTags(tags, PatDev) \cap KeptTags(tags, PatRc) = {}


\* the tag lists of at most one more entry that hold the same set of tags
SameSetLists(tagList) ==
    LET set == {tagList[i] : i \in 1..Len(tagList)}
    IN  {l \in UNION {[1..n -> set] : n \in 0..(Len(tagList) + 1)} :
            {l[i] : i \in 1..Len(l)} = set}

\* C27: discover's result depends only on the set of tags: every reordering
\* of the tag list and every list with an entry repeated gives the same
\* tag, version, found flag and exit code
C27_ResultDependsOnSetOnly ==
    Discovered =>
        \A l \in SameSetLists(tags) :
            LET other_run == DiscoverOutcome(l, argv[1].pattern[1], None)
            IN  /\ other_run.payload.found = Payload.found
                /\ other_run.payload.tag = Payload.tag
                /\ other_run.payload.version = Payload.version
                /\ Some(other_run.code) = exitCode


\* C28: on the validate path the stage has no influence: whether the target
\* is found depends on the tag list and the target alone, so an rc tag and a
\* final-release tag validate under pattern dev as under pattern rc; and a
\* validated result has commits_behind = null and no git rev-list was run,
\* also when the tags were read from git
C28_ValidateIgnoresStage ==
    Validated =>
        LET target == argv[1].validate[1]
        IN  /\ Payload.found <=> (target \in TagSet /\ ParseTag(target) # None)
            /\ exitCode = Some(IF Payload.found THEN 0 ELSE 1)
            /\ Payload.found =>
                  /\ Payload.tag = target
                  /\ Payload.commits_behind = None
            /\ ~RevListCalled
            /\ (target \in {TagInput.rc11_plain, TagInput.final} /\ target \in TagSet)
                  => Payload.found

\* C28 witness: under pattern dev, with the tags read from git, an rc tag was
\* validated
C28_Witness ==
    /\ Validated
    /\ argv[1].pattern[1] = PatDev
    /\ argv[1].tag_list = None
    /\ argv[1].validate = Some(TagInput.rc11_plain)
    /\ Payload.found
    /\ Payload.commits_behind = None


(***************************************************************************)
(* Properties of generate_changelog.py: malformed records                  *)
(***************************************************************************)
\* the record is blank, has fewer than three fields, or has an empty subject
\* or an empty hash after trimming
Malformed(k) ==
    \/ Strip(records[k]) = <<>>
    \/ Len(FieldsOf(k)) < 3
    \/ SubjectOf(k) = <<>>
    \/ ShaOf(k) = <<>>

\* C30: categorizing goes through every record of the log whatever it holds:
\* a malformed record contributes no entry (the lists hold one entry per
\* well-formed, non-excluded record processed, and only lines of such
\* records), the well-formed records before and after it are listed, the
\* call returns with every record visited, and an empty log returns four
\* empty lists
C30_MalformedRecordsSkipped ==
    /\ cpc # "env" =>
          /\ Len(breaking) + Len(features) + Len(fixes) + Len(other)
                = Cardinality({k \in Processed : ~Malformed(k) /\ ~MarkedSubject(k)})
          /\ \A k \in Processed :
                (~Malformed(k) /\ ~MarkedSubject(k)) => LineOf(k) \in AllLines
          /\ \A line \in AllLines :
                \E k \in Processed : ~Malformed(k) /\ LineOf(k) = line
    /\ cpc = "loop" => idx \in 1..(Len(records) + 1)
    /\ cpc \in {"returned", "rendered", "rerendered"} =>
          /\ idx = Len(records) + 1
          /\ raw_log = <<>> => AllLines = {}

\* C30 witness: a record of two fields came before a feat commit, the call
\* returned and the feat commit is listed
C30_Witness ==
    /\ cpc = "returned"
    /\ Len(records) = 3
    /\ Strip(records[1]) = RecordInput.two_fields
    /\ Malformed(1)
    /\ Strip(records[2]) = RecordInput.feat
    /\ features = <<LineOf(2)>>
    /\ breaking = <<>> /\ fixes = <<>> /\ other = <<>>


(***************************************************************************)
(* Properties of bump_version.py                                           *)
(***************************************************************************)
PyprojectBumped ==
    \E i \in 1..Len(bout) : bout[i] = "Bumped pyproject.toml"

CatalogBumped == \E i \in 1..Len(bout) : bout[i] = "Bumped catalog"

\* the entries of a catalog document other than the version key, in order
OtherEntries(doc) ==
    SelectSeq(doc, LAMBDA item : "key" \in DOMAIN item /\ item.key # "version")

\* C25: a bumped pyproject file is the file as it was with the first
\* version = "..." occurrence replaced by the new version and every other
\* character unchanged; a bumped catalog has the version key set to the new
\* version and its other keys, their values and their order unchanged
C25_BumpChangesOnlyVersion ==
    /\ PyprojectBumped =>
          fs.pyproject = Some(SubVersion(fs0.pyproject[1], bargs[1].version))
    /\ CatalogBumped =>
          /\ OtherEntries(fs.catalog[1]) = OtherEntries(fs0.catalog[1])
          /\ \E i \in 1..Len(fs.catalog[1]) :
                fs.catalog[1][i] = [key |-> "version", value |-> bargs[1].version]


BumpDone == bpc = "done" /\ bargs # None

\* the version field with the new version
NewVersionField == VersionFieldStart \o bargs[1].version \o <<"\"">>

HasVersionField(content) ==
    \E i \in 1..Len(content) : VersionMatchEnd(content, i) # 0

\* C29: the pyproject path is processed before the catalog path and nothing
\* is rolled back: with the pyproject path given and the file missing the
\* run exits 1, prints nothing and leaves the catalog as it was; with the
\* pyproject file present and the catalog path given and missing the run
\* exits 1 after the pyproject file was rewritten with the new version; a
\* catalog is bumped only after a given pyproject was bumped
C29_PyprojectFirstNoRollback ==
    BumpDone =>
        /\ (bargs[1].pyproject /\ fs0.pyproject = None) =>
              /\ bexit = Some(1)
              /\ fs = fs0
              /\ bout = <<>>
              /\ berr = <<"Error: pyproject.toml not found">>
        /\ (bargs[1].pyproject /\ fs0.pyproject # None
              /\ bargs[1].catalog /\ fs0.catalog = None) =>
              /\ bexit = Some(1)
              /\ bout = <<"Bumped pyproject.toml">>
              /\ berr = <<"Error: Catalog file not found">>
              /\ fs.catalog = None
              /\ HasVersionField(fs0.pyproject[1]) =>
                    /\ Contains(fs.pyproject[1], NewVersionField)
                    /\ fs.pyproject # fs0.pyproject
        /\ (CatalogBumped /\ bargs[1].pyproject) =>
              bout = <<"Bumped pyproject.toml", "Bumped catalog">>

\* C29 witness: the run ended with exit 1 for a missing catalog and the
\* pyproject file holds the new version
C29_Witness ==
    /\ BumpDone
    /\ bexit = Some(1)
    /\ bargs[1].pyproject /\ bargs[1].catalog
    /\ fs0.catalog = None
    /\ fs0.pyproject # None
    /\ fs.pyproject # fs0.pyproject
    /\ Contains(fs.pyproject[1], NewVersionField)


(***************************************************************************)
(* Properties of read_toml_field.py                                        *)
(***************************************************************************)
\* every segment exists along a path of nested tables
RECURSIVE PathExists(_, _)
PathExists(value, segments) ==
    \/ segments = <<>>
    \/ /\ value.kind = "table"
       /\ Head(segments) \in DOMAIN value.items
       /\ PathExists(value.items[Head(segments)], Tail(segments))

\* the run ended and the file was missing or a TOML document
TomlDone ==
    /\ tpc = "done"
    /\ targs # None
    /\ targs[1].file # None => targs[1].file[1].kind = "table"

\* C26: a run prints one value and exits 0 with nothing on stderr iff the
\* file exists and every segment of the dotted key exists along a path of
\* nested tables; a missing segment, an intermediate value that is no table
\* and a missing file end with exit 1, a message on stderr and nothing on
\* stdout
C26_ReadTomlField ==
    TomlDone =>
        LET found == /\ targs[1].file # None
                     /\ PathExists(targs[1].file[1], Split(targs[1].key, "."))
        IN  /\ found <=> (texit = Some(0) /\ Len(tout) = 1)
            /\ found => terr = <<>>
            /\ ~found =>
                  /\ texit = Some(1)
                  /\ tout = <<>>
                  /\ Len(terr) = 1
            /\ targs[1].file = None => terr = <<"Error: File not found">>
            /\ (targs[1].file # None /\ ~found) => terr = <<"Error: key not found">>
            /\ (targs[1].file # None
                  /\ targs[1].key = <<"project", ".", "version">>) =>
                  tout = <<[kind |-> "str", text |-> "1.2"]>>

\* C26 witness: the key goes through a value that is no table and the run
\* ended with exit 1 and nothing printed
C26_Witness ==
    /\ TomlDone
    /\ targs[1].file # None
    /\ targs[1].key = <<"project", ".", "version", ".", "x">>
    /\ texit = Some(1)
    /\ tout = <<>>

============================================================================
